---------------------------- MODULE Spec2Model ----------------------------
(***************************************************************************)
(* The paginated, cancellable streaming query pipeline of src/app.py:      *)
(* StreamingQueryThread (the worker), the per-tab session state kept in    *)
(* DuckDBSQLApp.query_tabs, and the control thread's handlers that start,  *)
(* cancel and consume workers.                                             *)
(*                                                                         *)
(* A statement is a sequence of lexemes.  The worker builds its count and  *)
(* page statements by concatenating lexemes exactly where the code         *)
(* concatenates text, and the engine (DuckDB, reached only through         *)
(* connection.execute / fetchmany / fetchone) lexes and parses what it is  *)
(* handed: a line comment hides the rest of its line, parentheses must     *)
(* close, LIMIT/OFFSET select a slice.                                     *)
(*                                                                         *)
(* The specifications share the actions.  In Spec the user presses         *)
(* Execute, Cancel and the page controls at any moment the control thread  *)
(* is in its event loop, and every engine call may raise.  In SpecPage the *)
(* user waits for each page before asking for another, over tables of      *)
(* every size up to MaxRows and statements with and without their own      *)
(* LIMIT and trailing comment.  SpecSplit applies split_sql_statements to  *)
(* every short text.  In SpecMulti the user also replaces the text of the  *)
(* editor, with one statement or with several, which                       *)
(* execute_multiple_queries runs.  SpecExport adds FullExportQueryThread   *)
(* and the export handlers.  In SpecTabs the user adds and closes tabs.    *)
(* SpecRewrite pages through statements with a string literal,             *)
(* SpecNavigate moves between pages at any moment, go_to_page being called *)
(* with page numbers of every sign, and SpecPageSize changes the page size *)
(* before and after a statement is submitted.  SpecSubmit submits texts    *)
(* that hold no statement, in SpecClose the user closes the window, and    *)
(* in SpecRoute tabs before the session's tab are closed.  SpecLive adds   *)
(* to the actions the conditions under which the threads go on.            *)
(***************************************************************************)
EXTENDS Integers, Sequences, FiniteSets, TLC

(***************************************************************************)
(* Bounds of the model.                                                    *)
(***************************************************************************)
\* rows per fetchmany() chunk; stands for the 1000 of app.py:1701
ChunkRows == 2
\* largest number of rows in the queried table
MaxRows == 5
\* the integer of a statement's own LIMIT clause
OwnLimit == 3
\* StreamingQueryThread objects created in one behaviour with a user who
\* acts at any time
MaxWorkers == 2
\* StreamingQueryThread objects created in one behaviour with a user who
\* waits for each page before asking for another
MaxPageLoads == 2
\* characters of a text handed to the statement splitter
MaxTextLen == 5
\* rows per fetchmany() of the export worker; stands for the 10000 of
\* app.py:1815
ExportBatchRows == 2
\* FullExportQueryThread objects created in one behaviour
MaxExports == 2
\* tabs of query_tab_widget
MaxTabs == 2

(***************************************************************************)
(* Lexemes and statement texts.                                            *)
(***************************************************************************)
K(s) == [t |-> s, n |-> 0]
Num(i) == [t |-> "num", n |-> i]

\* "* FROM t": select list and source of the one table of the model
Body == <<K("BODY")>>
LineComment == <<K("--"), K("c")>>

SelectPlain == <<K("SELECT")>> \o Body
SelectLimit == <<K("SELECT")>> \o Body \o <<K("LIMIT"), Num(OwnLimit)>>
SelectComment == <<K("SELECT")>> \o Body \o LineComment
SelectInnerComment == <<K("SELECT")>> \o LineComment \o <<K("\n")>> \o Body
SelectLimitComment == SelectLimit \o LineComment
WithSelect == <<K("WITH")>> \o Body
InsertStmt == <<K("INSERT")>>
EmptyText == <<>>

SelectLower == <<K("select")>> \o Body
\* "SELECT * FROM t WHERE text <> 'limit 3'": WHERE stands for the words up
\* to the literal
SelectLiteral ==
    SelectPlain \o <<K("WHERE"), K("'"), K("limit"), K(" "), Num(OwnLimit), K("'")>>
\* the same with a LIMIT clause of its own after the literal
SelectLiteralLimit == SelectLiteral \o <<K("LIMIT"), Num(OwnLimit)>>
\* a statement whose first word is longer than SELECT and begins with it
SelectedWord == <<K("SELECTED")>> \o Body
ExplainSelect == <<K("EXPLAIN")>> \o SelectPlain
SpaceSelect == <<K(" ")>> \o SelectPlain

\* the characters the statement splitter tells apart, one lexeme each ("--"
\* is the pair of dashes that opens a line comment), and a word
Semi == K(";")
SingleQuote == K("'")
DoubleQuote == K("\"")
Dashes == K("--")
Space == K(" ")
Newline == K("\n")
Backslash == K("\\")
Word == K("a")

\* two statements in the editor
TwoStatements == SelectPlain \o <<Semi>> \o InsertStmt

IsSpace(tok) == tok.t \in {" ", "\n"}

\* str.upper() on the keywords the model writes in lower case
UpperTok(tok) == IF tok.t = "select" THEN K("SELECT")
                 ELSE IF tok.t = "limit" THEN K("LIMIT")
                 ELSE tok
UpperText(q) == [i \in DOMAIN q |-> UpperTok(q[i])]

RECURSIVE RStripSpace(_)
RStripSpace(q) == IF q # <<>> /\ IsSpace(q[Len(q)])
                  THEN RStripSpace(SubSeq(q, 1, Len(q) - 1))
                  ELSE q

RECURSIVE LStripSpace(_)
LStripSpace(q) == IF q # <<>> /\ IsSpace(q[1]) THEN LStripSpace(Tail(q)) ELSE q

RECURSIVE RStripSemi(_)
RStripSemi(q) == IF q # <<>> /\ q[Len(q)].t = ";"
                 THEN RStripSemi(SubSeq(q, 1, Len(q) - 1))
                 ELSE q

\* self.query.strip().upper()
QueryUpper(q) == UpperText(LStripSpace(RStripSpace(q)))

\* self.query.rstrip().rstrip(';')
CleanQuery(q) == RStripSemi(RStripSpace(q))

\* str.startswith on the spelling of a lexeme
StartsWith(s, prefix) ==
    Len(s) >= Len(prefix) /\ SubSeq(s, 1, Len(prefix)) = prefix

\* query_upper.startswith('SELECT'): the test is on the characters, so it
\* holds of every text whose first word begins with SELECT
IsSelectQuery(q) ==
    LET u == QueryUpper(q) IN u # <<>> /\ StartsWith(u[1].t, "SELECT")

\* re.search(r'\bLIMIT\s+\d+\b', query_upper): the word LIMIT, white space,
\* an integer; the search runs over the whole text, comments included
RECURSIVE SkipSpace(_, _)
SkipSpace(u, i) == IF i <= Len(u) /\ IsSpace(u[i]) THEN SkipSpace(u, i + 1) ELSE i

HasLimitClause(q) ==
    LET u == QueryUpper(q) IN
    \E i \in 1..Len(u) :
        /\ u[i].t = "LIMIT"
        /\ LET j == SkipSpace(u, i + 1) IN j <= Len(u) /\ u[j].t = "num"

\* f"SELECT COUNT(*) FROM ({clean_query}) AS count_subquery"
CountQuery(q) ==
    <<K("SELECT"), K("COUNT"), K("FROM"), K("(")>> \o CleanQuery(q)
        \o <<K(")"), K("AS"), K("alias")>>

\* f"SELECT * FROM ({clean_query}) AS subquery LIMIT {batch_size} OFFSET {offset}"
WrappedQuery(q, n, o) ==
    <<K("SELECT"), K("*"), K("FROM"), K("(")>> \o CleanQuery(q)
        \o <<K(")"), K("AS"), K("alias"), K("LIMIT"), Num(n), K("OFFSET"), Num(o)>>

\* f"{clean_query} LIMIT {batch_size} OFFSET {offset}"
AppendedQuery(q, n, o) ==
    CleanQuery(q) \o <<K("LIMIT"), Num(n), K("OFFSET"), Num(o)>>

PaginatedQuery(q, n, o) ==
    IF HasLimitClause(q) THEN WrappedQuery(q, n, o) ELSE AppendedQuery(q, n, o)

(***************************************************************************)
(* split_sql_statements (app.py:4637-4693): a scan over the characters of  *)
(* the text, line by line.                                                 *)
(***************************************************************************)
\* str.strip()
StripText(q) == LStripSpace(RStripSpace(q))

\* a comment that also ends at a semicolon
RECURSIVE LineEndOrSemi(_, _)
LineEndOrSemi(q, i) == IF i > Len(q) \/ q[i] \in {Newline, Semi} THEN i
                       ELSE LineEndOrSemi(q, i + 1)

\* the position of the first newline at or after i, Len(q) + 1 if none: the
\* end of the line that holds position i
RECURSIVE LineEnd(_, _)
LineEnd(q, i) == IF i > Len(q) \/ q[i] = Newline THEN i ELSE LineEnd(q, i + 1)

\* the scanner's variables as split_sql_statements initialises them;
\* string_char is <<>> for None
ScanStart == [statements |-> <<>>, current_statement |-> <<>>,
              in_string |-> FALSE, string_char |-> <<>>]

\* "stmt = ''.join(current_statement).strip(); if stmt and stmt != ';':
\* statements.append(stmt.rstrip(';').strip())"
AppendStatement(statements, current_statement) ==
    LET stmt == StripText(current_statement) IN
    IF stmt # <<>> /\ stmt # <<Semi>>
    THEN Append(statements, StripText(RStripSemi(stmt)))
    ELSE statements

\* "if current_statement: current_statement.append('\n')" at the end of a line
EndOfLine(st) ==
    IF st.current_statement # <<>>
    THEN [st EXCEPT !.current_statement = Append(@, Newline)]
    ELSE st

\* a scanner that takes no notice of quotes
QuoteIgnored(q, i, st) == st

\* the state of the string literal after the character at position i, which
\* is a quote (lines 4660-4670); the character before it on its line escapes
\* a closing quote when it is a backslash
AfterQuote(q, i, st) ==
    IF ~st.in_string
    THEN [st EXCEPT !.in_string = TRUE, !.string_char = <<q[i]>>]
    ELSE IF <<q[i]>> = st.string_char
         THEN IF i > 1 /\ q[i - 1] = Backslash THEN st
              ELSE [st EXCEPT !.in_string = FALSE, !.string_char = <<>>]
         ELSE st

\* the loops of lines 4647-4685 from position i on
RECURSIVE Scan(_, _, _)
Scan(q, i, st) ==
    IF i > Len(q) THEN EndOfLine(st)
    ELSE IF q[i] = Newline THEN Scan(q, i + 1, EndOfLine(st))
    ELSE IF ~st.in_string /\ q[i] = Dashes
    THEN LET e == LineEnd(q, i) IN
         Scan(q, e, [st EXCEPT !.current_statement = @ \o SubSeq(q, i, e - 1)])
    ELSE LET s1 == IF q[i] \in {SingleQuote, DoubleQuote} THEN AfterQuote(q, i, st)
                   ELSE st IN
         IF q[i] = Semi /\ ~s1.in_string
         THEN Scan(q, i + 1,
                   [s1 EXCEPT !.statements =
                                  AppendStatement(@, Append(s1.current_statement, q[i])),
                              !.current_statement = <<>>])
         ELSE Scan(q, i + 1, [s1 EXCEPT !.current_statement = Append(@, q[i])])

\* split_sql_statements(query_text)
SplitSqlStatements(query_text) ==
    LET st == Scan(query_text, 1, ScanStart)
        statements == AppendStatement(st.statements, st.current_statement) IN
    SelectSeq(statements, LAMBDA s : s # <<>>)

\* the statements joined with ';' between them
RECURSIVE JoinStatements(_)
JoinStatements(statements) ==
    IF statements = <<>> THEN <<>>
    ELSE IF Len(statements) = 1 THEN statements[1]
    ELSE statements[1] \o <<Semi>> \o JoinStatements(Tail(statements))

(***************************************************************************)
(* The engine behind connection.execute(): lexing, parsing, evaluation.    *)
(***************************************************************************)
\* the position of the first single quote at or after i, 0 when there is
\* none
RECURSIVE ClosingQuote(_, _)
ClosingQuote(q, i) == IF i > Len(q) THEN 0
                      ELSE IF q[i].t = "'" THEN i
                      ELSE ClosingQuote(q, i + 1)

\* a line comment runs from "--" to the end of its line; white space and
\* comments are no lexemes; keywords are case-insensitive; a string
\* literal, from its quote to the next one, is one lexeme
RECURSIVE LexFrom(_, _, _)
LexFrom(q, i, inComment) ==
    IF i > Len(q) THEN <<>>
    ELSE IF inComment
         THEN LexFrom(q, i + 1, q[i].t # "\n")
         ELSE IF q[i].t = "--" THEN LexFrom(q, i + 1, TRUE)
         ELSE IF IsSpace(q[i]) THEN LexFrom(q, i + 1, FALSE)
         ELSE IF q[i].t = "'"
              THEN LET j == ClosingQuote(q, i + 1) IN
                   IF j = 0 THEN <<K("unterminated")>>
                   ELSE <<K("literal")>> \o LexFrom(q, j + 1, FALSE)
         ELSE <<UpperTok(q[i])>> \o LexFrom(q, i + 1, FALSE)

Lex(q) == LexFrom(q, 1, FALSE)

\* what execute() gives: a raised error with its message, or a cursor with
\* its description (<<>> stands for None) and the rows it will deliver
EngineError(m) == [ok |-> FALSE, msg |-> m, description |-> <<>>, rows |-> <<>>]
EngineCursor(d, r) == [ok |-> TRUE, msg |-> "", description |-> d, rows |-> r]

\* A cell of a row: an integer, a bytes object of `len` bytes, or a str.  A
\* str is the first `len` characters of the text numbered v, followed by
\* `tail`; a str made by formatting the number v has its format in `form`.
IntCell(i) == [type |-> "int", form |-> "", v |-> i, len |-> 0, tail |-> ""]
BytesCell(id, n) == [type |-> "bytes", form |-> "", v |-> id, len |-> n, tail |-> ""]
StrCell(id, n) == [type |-> "str", form |-> "", v |-> id, len |-> n, tail |-> ""]
Literal(s) == [type |-> "str", form |-> s, v |-> 0, len |-> Len(s), tail |-> ""]

\* len(cell)
CellLen(cell) == cell.len + Len(cell.tail)

\* the thresholds of app.py:1713 and 1716
BinaryLimit == 10000
StringLimit == 50000

\* the sizes of the bytes and str cells of the table's rows: at the
\* threshold, one above it, well above it (20,000 bytes and 60,000
\* characters), and small in every further row
BlobSizes == <<BinaryLimit, BinaryLimit + 1, 2 * BinaryLimit>>
TextSizes == <<StringLimit, StringLimit + 1, StringLimit + BinaryLimit>>
SizeOf(sizes, i) == IF i <= Len(sizes) THEN sizes[i] ELSE i

\* row i of the table: an id, a blob, a text
TableRow(i) == <<IntCell(i), BytesCell(i, SizeOf(BlobSizes, i)),
                 StrCell(i, SizeOf(TextSizes, i))>>
TableColumns == <<"id", "blob", "text">>

\* the table's rows, in the order the engine returns them
TableData(R) == [i \in 1..R |-> TableRow(i)]

\* rows O+1 .. min(O+N, Len(rows)) of a result
Slice(rows, N, O) ==
    LET hi == IF O + N < Len(rows) THEN O + N ELSE Len(rows) IN
    SubSeq(rows, O + 1, hi)

\* the position of the last ")" of a lexeme sequence, 0 when there is none
RECURSIVE LastClose(_, _)
LastClose(toks, i) == IF i = 0 THEN 0
                      ELSE IF toks[i].t = ")" THEN i
                      ELSE LastClose(toks, i - 1)

\* the LIMIT / OFFSET clauses that may end a select statement
ApplyTail(res, tail) ==
    IF ~res.ok THEN res
    ELSE IF tail = <<>> THEN res
    ELSE IF Len(tail) = 2 /\ tail[1].t = "LIMIT" /\ tail[2].t = "num"
         THEN EngineCursor(res.description, Slice(res.rows, tail[2].n, 0))
    ELSE IF Len(tail) = 2 /\ tail[1].t = "OFFSET" /\ tail[2].t = "num"
         THEN EngineCursor(res.description, Slice(res.rows, Len(res.rows), tail[2].n))
    ELSE IF /\ Len(tail) = 4
            /\ tail[1].t = "LIMIT" /\ tail[2].t = "num"
            /\ tail[3].t = "OFFSET" /\ tail[4].t = "num"
         THEN EngineCursor(res.description, Slice(res.rows, tail[2].n, tail[4].n))
    ELSE EngineError("syntax error")

\* "WHERE text <> '...'" keeps every row of the table: no text of it is
\* the literal
AfterWhere(tail) ==
    IF Len(tail) >= 2 /\ tail[1].t = "WHERE" /\ tail[2].t = "literal"
    THEN SubSeq(tail, 3, Len(tail))
    ELSE tail

RECURSIVE Eval(_, _)
Eval(toks, R) ==
    IF toks = <<>> THEN EngineError("syntax error")
    ELSE IF toks[1].t \in {"SELECT", "WITH"} /\ Len(toks) >= 2
    THEN IF toks[2].t = "BODY"
         THEN ApplyTail(EngineCursor(TableColumns, TableData(R)),
                        AfterWhere(SubSeq(toks, 3, Len(toks))))
         ELSE IF toks[2].t \in {"*", "COUNT"} /\ toks[1].t = "SELECT"
         THEN LET p == LastClose(toks, Len(toks)) IN
              IF /\ Len(toks) >= 4 /\ toks[3].t = "FROM" /\ toks[4].t = "("
                 /\ p > 5 /\ Len(toks) >= p + 2
                 /\ toks[p + 1].t = "AS" /\ toks[p + 2].t = "alias"
              THEN LET inner == Eval(SubSeq(toks, 5, p - 1), R) IN
                   IF ~inner.ok THEN inner
                   ELSE IF inner.description = <<>> THEN EngineError("syntax error")
                   ELSE ApplyTail(
                          IF toks[2].t = "*" THEN inner
                          ELSE EngineCursor(<<"count">>,
                                            << <<IntCell(Len(inner.rows))>> >>),
                          SubSeq(toks, p + 3, Len(toks)))
              ELSE EngineError("syntax error")
         ELSE EngineError("syntax error")
    ELSE IF toks[1].t = "EXPLAIN"
    THEN LET inner == Eval(Tail(toks), R) IN
         IF inner.ok
         THEN EngineCursor(<<"explain_key", "explain_value">>,
                           << <<Literal("physical_plan"), Literal("plan")>> >>)
         ELSE inner
    ELSE IF toks = <<K("INSERT")>> THEN EngineCursor(<<>>, <<>>)
    ELSE EngineError("syntax error")

\* connection.execute(text) when the engine itself does not fail
Execute(q, R) == Eval(Lex(q), R)

(***************************************************************************)
(* State.                                                                  *)
(***************************************************************************)
VARIABLES
    table,        \* number of rows of the queried table (the engine's data)
    sql_editor,   \* the text in the tab's editor
    tab,          \* query_tabs[tab_index]: the session
    threads,      \* the StreamingQueryThread objects, by creation order
    posted,       \* queued signal deliveries waiting for the control thread
    control,      \* where the control thread is: its event loop, or a wait()
    emitted,      \* per worker, every event it has emitted so far
    cancelAt,     \* per worker, its position when cancel() first set the flag
    failedCall,   \* per worker, the engine calls of it that raised
    queries,      \* the statements execute_query_for_tab last split the text into
    export_threads,          \* the FullExportQueryThread objects, by creation order
    export_query_thread,     \* self.export_query_thread; 0 when the attribute is unset
    export_progress_dialog,  \* self.export_progress_dialog, the QProgressDialog
    export_file,             \* what export_to_excel/csv/json/parquet last wrote
    query_tab_widget         \* query_tab_widget.count(): the number of tabs

exportVars == <<export_threads, export_query_thread, export_progress_dialog,
                export_file>>

vars == <<table, sql_editor, tab, threads, posted, control, emitted, cancelAt,
          failedCall, queries, exportVars, query_tab_widget>>

Workers == DOMAIN threads

\* page_size_combo's items (app.py:4427), in chunks: one chunk, several chunks
PageSizeChoices == {ChunkRows, 2 * ChunkRows}
\* page_size_combo.setCurrentText('10000'): a page of several chunks
DefaultPageSize == 2 * ChunkRows

Min(a, b) == IF a < b THEN a ELSE b

NoThread == [pc |-> "unborn", query |-> <<>>, batch_size |-> 0, offset |-> 0,
             is_cancelled |-> FALSE, total_count |-> 0, columns |-> <<>>,
             cursor |-> <<>>, chunk |-> <<>>, batch_data |-> <<>>,
             error |-> "",
             \* the observer's: the texts run() has handed to
             \* connection.execute() so far
             calls |-> <<>>,
             \* the tab_index held by the lambdas that
             \* execute_streaming_query connects to the thread's signals
             tab_index |-> 0]

\* StreamingQueryThread.__init__ followed by start()
NewThread(q, n, o) == [NoThread EXCEPT !.pc = "start", !.query = q,
                                       !.batch_size = n, !.offset = o]

\* run() has returned: the thread is finished and its locals are gone
Finished(th) == [NoThread EXCEPT !.pc = "done", !.query = th.query,
                                 !.batch_size = th.batch_size,
                                 !.offset = th.offset,
                                 !.is_cancelled = th.is_cancelled,
                                 !.tab_index = th.tab_index]

Event(w, k) == [w |-> w, kind |-> k, progress |-> 0, columns |-> <<>>,
                data |-> <<>>, total_count |-> 0, has_more |-> FALSE,
                message |-> ""]
ProgressEvent(w, v) == [Event(w, "progress") EXCEPT !.progress = v]
BatchEvent(w, cols, rows, total, more) ==
    [Event(w, "batch") EXCEPT !.columns = cols, !.data = rows,
                              !.total_count = total, !.has_more = more]
ErrorEvent(w, m) == [Event(w, "error") EXCEPT !.message = m]

\* signal.emit() from run(), once per event of evs: each delivery is queued
\* for the control thread
Emit(w, evs) ==
    /\ posted' = posted \o evs
    /\ emitted' = [emitted EXCEPT ![w] = @ \o evs]

NoEmit == UNCHANGED <<posted, emitted>>

\* the engine call `call` of worker w raised with message m
NoteFailure(w, call, m) ==
    failedCall' = [failedCall EXCEPT ![w] = @ \cup {<<call, m>>}]

\* an exception raised inside run()'s try block reaches "except Exception"
Raise(th, m) == [th EXCEPT !.pc = "except", !.error = m]

\* a read of the flag that misses a cancel()
NeverCancelled(th) == FALSE

\* the reads of self._is_cancelled, by place
CancelledAfterCount(th) == th.is_cancelled
CancelledAfterPrepare(th) == th.is_cancelled
CancelledNonSelect(th) == th.is_cancelled
CancelledBeforeFetch(th) == th.is_cancelled
CancelledInFetch(th) == th.is_cancelled
CancelledBeforeEmit(th) == th.is_cancelled
CancelledInExcept(th) == th.is_cancelled

\* the number of decimal digits of n >= 0
RECURSIVE Digits(_)
Digits(n) == IF n < 10 THEN 1 ELSE 1 + Digits(n \div 10)

\* f"<Binary data: {len(cell)} bytes>"
BinarySummary(n) ==
    [type |-> "str", form |-> "<Binary data: {} bytes>", v |-> n,
     len |-> Len("<Binary data: ") + Digits(n) + Len(" bytes>"), tail |-> ""]

\* cell[:n] of a str
StrPrefix(cell, n) ==
    IF cell.len >= n THEN [cell EXCEPT !.len = n, !.tail = ""]
    ELSE [cell EXCEPT !.tail = SubSeq(cell.tail, 1, Min(n - cell.len, Len(cell.tail)))]

TruncatedMarker == "... (truncated)"

\* cell[:50000] + "... (truncated)"
Truncated(cell) ==
    LET p == StrPrefix(cell, StringLimit) IN [p EXCEPT !.tail = @ \o TruncatedMarker]

\* a worker that appends every cell as it came from the engine
CellUnchanged(cell) == cell

\* the cell clamping of lines 1713-1720 and 1739-1744
ProcessCell(cell) ==
    IF cell.type = "bytes" /\ CellLen(cell) > BinaryLimit
    THEN BinarySummary(CellLen(cell))
    ELSE IF cell.type = "str" /\ CellLen(cell) > StringLimit
    THEN Truncated(cell)
    ELSE cell
ProcessRow(row) == [i \in DOMAIN row |-> ProcessCell(row[i])]
ProcessRows(rows) == [i \in DOMAIN rows |-> ProcessRow(rows[i])]

\* the engine calls of run(); mayFail, a set of them, names those that can
\* raise for a reason of the engine's own (lost file, memory, lock), whatever
\* the text
EngineCalls == {"count", "execute", "fetch"}
EngineFails(call, mayFail) == IF call \in mayFail THEN BOOLEAN ELSE {FALSE}

\* an engine call either raises for a reason of its own or runs the text
EngineCall(q, engineFails) ==
    IF engineFails THEN EngineError("engine error") ELSE Execute(q, table)

(***************************************************************************)
(* StreamingQueryThread.run.  An action is the stretch of code from one    *)
(* read of the cancellation flag to the next; the two final emissions are  *)
(* actions of their own, since the flag can be set between the read that   *)
(* precedes them and the emit.                                             *)
(***************************************************************************)
\* a count failure that leaves total_count at 0
CountResultZero(res) ==
    IF res.ok THEN (IF res.rows # <<>> THEN res.rows[1][1].v ELSE 0) ELSE 0

\* total_count after the count query
CountResult(res) ==
    IF res.ok THEN (IF res.rows # <<>> THEN res.rows[1][1].v ELSE 0) ELSE -1

\* lines 1617-1638 (SELECT) and 1617-1672 (other statements)
RunStart(w, mayFail) ==
    /\ threads[w].pc = "start"
    /\ LET th == threads[w] IN
       IF IsSelectQuery(th.query)
       THEN \E engineFails \in EngineFails("count", mayFail) :
              LET res == EngineCall(CountQuery(th.query), engineFails) IN
              /\ threads' = [threads EXCEPT ![w].pc = "check_count",
                                            ![w].total_count = CountResult(res),
                                            ![w].calls = <<CountQuery(th.query)>>]
              /\ IF res.ok THEN UNCHANGED failedCall
                 ELSE NoteFailure(w, "count", res.msg)
       ELSE /\ threads' = [threads EXCEPT ![w].pc = "check_ns"]
            /\ UNCHANGED failedCall
    /\ Emit(w, <<ProgressEvent(w, 0), ProgressEvent(w, 25)>>)
    /\ UNCHANGED <<exportVars, table, query_tab_widget, sql_editor, queries, tab, control, cancelAt>>

\* lines 1640-1660
RunPrepare(w) ==
    /\ threads[w].pc = "check_count"
    /\ LET th == threads[w] IN
       IF CancelledAfterCount(th)
       THEN /\ threads' = [threads EXCEPT ![w] = Finished(th)]
            /\ NoEmit
       ELSE /\ threads' = [threads EXCEPT ![w].pc = "check_prepare"]
            /\ Emit(w, <<ProgressEvent(w, 50)>>)
    /\ UNCHANGED <<exportVars, table, query_tab_widget, sql_editor, queries, tab, control, cancelAt, failedCall>>

\* the cursor and column list of a successful execute(), then progress 75
Executed(th, res, cols, total) ==
    [th EXCEPT !.pc = "check_fetch", !.cursor = res.rows, !.columns = cols,
               !.total_count = total]

\* lines 1662-1668
RunExecute(w, mayFail) ==
    /\ threads[w].pc = "check_prepare"
    /\ LET th0 == threads[w]
           th == [th0 EXCEPT !.calls = @ \o
                      <<PaginatedQuery(th0.query, th0.batch_size, th0.offset)>>] IN
       IF CancelledAfterPrepare(th)
       THEN /\ threads' = [threads EXCEPT ![w] = Finished(th)]
            /\ NoEmit
            /\ UNCHANGED failedCall
       ELSE \E engineFails \in EngineFails("execute", mayFail) :
              LET res == EngineCall(
                             PaginatedQuery(th.query, th.batch_size, th.offset),
                             engineFails) IN
              IF res.ok
              THEN /\ threads' = [threads EXCEPT ![w] =
                         Executed(th, res, res.description, th.total_count)]
                   /\ Emit(w, <<ProgressEvent(w, 75)>>)
                   /\ UNCHANGED failedCall
              ELSE /\ threads' = [threads EXCEPT ![w] = Raise(th, res.msg)]
                   /\ NoEmit
                   /\ NoteFailure(w, "execute", res.msg)
    /\ UNCHANGED <<exportVars, table, query_tab_widget, sql_editor, queries, tab, control, cancelAt>>

\* lines 1674-1689
RunNonSelectExecute(w, mayFail) ==
    /\ threads[w].pc = "check_ns"
    /\ LET th0 == threads[w]
           th == [th0 EXCEPT !.calls = @ \o <<CleanQuery(th0.query)>>] IN
       IF CancelledNonSelect(th)
       THEN /\ threads' = [threads EXCEPT ![w] = Finished(th)]
            /\ NoEmit
            /\ UNCHANGED failedCall
       ELSE \E engineFails \in EngineFails("execute", mayFail) :
              LET res == EngineCall(CleanQuery(th.query), engineFails) IN
              IF res.ok
              THEN /\ threads' = [threads EXCEPT ![w] =
                         Executed(th, res,
                                  IF res.description # <<>> THEN res.description
                                  ELSE <<"Result">>,
                                  1)]
                   /\ Emit(w, <<ProgressEvent(w, 75)>>)
                   /\ UNCHANGED failedCall
              ELSE /\ threads' = [threads EXCEPT ![w] = Raise(th, res.msg)]
                   /\ NoEmit
                   /\ NoteFailure(w, "execute", res.msg)
    /\ UNCHANGED <<exportVars, table, query_tab_widget, sql_editor, queries, tab, control, cancelAt>>

\* "while row_count < self.batch_size: chunk = cursor.fetchmany(1000);
\* if not chunk: break", up to the read of the flag that follows; row_count
\* is len(batch_data) wherever the code reads it
FetchNext(w, th, mayFail) ==
    \E engineFails \in EngineFails("fetch", mayFail) :
      IF engineFails
      THEN /\ threads' = [threads EXCEPT ![w] = Raise(th, "engine error")]
           /\ NoteFailure(w, "fetch", "engine error")
      ELSE LET k == Min(ChunkRows, Len(th.cursor))
               chunk == SubSeq(th.cursor, 1, k) IN
           /\ threads' = [threads EXCEPT ![w] =
                  [th EXCEPT !.chunk = chunk,
                             !.cursor = SubSeq(th.cursor, k + 1, Len(th.cursor)),
                             !.pc = IF chunk = <<>> THEN "check_final"
                                    ELSE "check_chunk"]]
           /\ UNCHANGED failedCall

AckRow == <<Literal("Query executed successfully")>>

\* lines 1731-1754: cursor.fetchall() inside its own try/except
NonSelectFetch(w, th, mayFail) ==
    \E engineFails \in EngineFails("fetch", mayFail) :
      /\ threads' = [threads EXCEPT ![w] =
             [th EXCEPT !.batch_data = IF ~engineFails /\ th.cursor # <<>>
                                       THEN ProcessRows(th.cursor)
                                       ELSE <<AckRow>>,
                        !.cursor = <<>>,
                        !.pc = "check_final"]]
      /\ IF engineFails THEN NoteFailure(w, "fetch", "engine error")
         ELSE UNCHANGED failedCall

\* lines 1691-1703 and 1730-1754
RunBeginFetch(w, mayFail) ==
    /\ threads[w].pc = "check_fetch"
    /\ LET th == threads[w] IN
       IF CancelledBeforeFetch(th)
       THEN /\ threads' = [threads EXCEPT ![w] = Finished(th)]
            /\ UNCHANGED failedCall
       ELSE IF IsSelectQuery(th.query)
            THEN FetchNext(w, th, mayFail)
            ELSE NonSelectFetch(w, th, mayFail)
    /\ NoEmit
    /\ UNCHANGED <<exportVars, table, query_tab_widget, sql_editor, queries, tab, control, cancelAt>>

\* int(min(95, 75 + (row_count / self.batch_size) * 20))
FetchProgress(row_count, batch_size) ==
    Min(95, 75 + ((row_count * 20) \div batch_size))

\* lines 1709-1725: the rows of the chunk are appended until row_count
\* reaches batch_size
ProcessChunk(th) ==
    LET room == th.batch_size - Len(th.batch_data)
        taken == SubSeq(th.chunk, 1, Min(room, Len(th.chunk))) IN
    [th EXCEPT !.batch_data = th.batch_data \o ProcessRows(taken),
               !.chunk = <<>>]

\* lines 1705-1706: the read of the flag inside the loop
RunCheckChunk(w) ==
    /\ threads[w].pc = "check_chunk"
    /\ LET th == threads[w] IN
       threads' = [threads EXCEPT ![w] =
           IF CancelledInFetch(th) THEN Finished(th)
           ELSE [th EXCEPT !.pc = "process_chunk"]]
    /\ NoEmit
    /\ UNCHANGED <<exportVars, table, query_tab_widget, sql_editor, queries, tab, control, cancelAt, failedCall>>

\* lines 1709-1729, then the next pass of the loop
RunProcessChunk(w, mayFail) ==
    /\ threads[w].pc = "process_chunk"
    /\ LET th2 == ProcessChunk(threads[w]) IN
       /\ Emit(w, <<ProgressEvent(w,
              FetchProgress(Len(th2.batch_data), th2.batch_size))>>)
       /\ IF Len(th2.batch_data) >= th2.batch_size
          THEN /\ threads' = [threads EXCEPT ![w] =
                      [th2 EXCEPT !.pc = "check_final"]]
               /\ UNCHANGED failedCall
          ELSE FetchNext(w, th2, mayFail)
    /\ UNCHANGED <<exportVars, table, query_tab_widget, sql_editor, queries, tab, control, cancelAt>>

\* lines 1756-1757
RunCheckFinal(w) ==
    /\ threads[w].pc = "check_final"
    /\ LET th == threads[w] IN
       threads' = [threads EXCEPT ![w] =
           IF CancelledBeforeEmit(th) THEN Finished(th)
           ELSE [th EXCEPT !.pc = "emit_batch"]]
    /\ NoEmit
    /\ UNCHANGED <<exportVars, table, query_tab_widget, sql_editor, queries, tab, control, cancelAt, failedCall>>

\* has_more from the number of rows alone
HasMoreByRows(th) ==
    IF IsSelectQuery(th.query) THEN Len(th.batch_data) = th.batch_size
    ELSE FALSE

\* has_more from the count and the offset alone
HasMoreByCount(th) ==
    IF IsSelectQuery(th.query)
    THEN th.total_count = -1 \/ th.offset + th.batch_size < th.total_count
    ELSE FALSE

\* lines 1760-1763
HasMore(th) ==
    IF IsSelectQuery(th.query)
    THEN /\ Len(th.batch_data) = th.batch_size
         /\ (th.total_count = -1 \/ th.offset + th.batch_size < th.total_count)
    ELSE FALSE

\* the two final emissions in the other order
RunEmitBatchFirst(w) ==
    /\ threads[w].pc = "emit_batch"
    /\ LET th == threads[w] IN
       /\ Emit(w, <<BatchEvent(w, th.columns, th.batch_data, th.total_count,
                               HasMore(th)),
                    ProgressEvent(w, 100)>>)
       /\ threads' = [threads EXCEPT ![w] = Finished(th)]
    /\ UNCHANGED <<exportVars, table, query_tab_widget, sql_editor, queries, tab, control, cancelAt, failedCall>>

\* lines 1765-1770
RunEmitBatch(w) ==
    /\ threads[w].pc = "emit_batch"
    /\ LET th == threads[w] IN
       /\ Emit(w, <<ProgressEvent(w, 100),
                    BatchEvent(w, th.columns, th.batch_data, th.total_count,
                               HasMore(th))>>)
       /\ threads' = [threads EXCEPT ![w] = Finished(th)]
    /\ UNCHANGED <<exportVars, table, query_tab_widget, sql_editor, queries, tab, control, cancelAt, failedCall>>

\* lines 1772-1773: "except Exception as e: if not self._is_cancelled:"
RunExcept(w) ==
    /\ threads[w].pc = "except"
    /\ LET th == threads[w] IN
       threads' = [threads EXCEPT ![w] =
           IF CancelledInExcept(th) THEN Finished(th)
           ELSE [th EXCEPT !.pc = "emit_error"]]
    /\ NoEmit
    /\ UNCHANGED <<exportVars, table, query_tab_widget, sql_editor, queries, tab, control, cancelAt, failedCall>>

\* line 1774
RunEmitError(w) ==
    /\ threads[w].pc = "emit_error"
    /\ Emit(w, <<ErrorEvent(w, threads[w].error)>>)
    /\ threads' = [threads EXCEPT ![w] = Finished(threads[w])]
    /\ UNCHANGED <<exportVars, table, query_tab_widget, sql_editor, queries, tab, control, cancelAt, failedCall>>

Run(w, mayFail) ==
    \/ RunStart(w, mayFail) \/ RunPrepare(w) \/ RunExecute(w, mayFail)
    \/ RunNonSelectExecute(w, mayFail) \/ RunBeginFetch(w, mayFail)
    \/ RunCheckChunk(w) \/ RunProcessChunk(w, mayFail) \/ RunCheckFinal(w)
    \/ RunEmitBatch(w) \/ RunExcept(w) \/ RunEmitError(w)

(***************************************************************************)
(* The control thread: DuckDBSQLApp's handlers.  A handler runs from its   *)
(* start to its end without interleaving with other handlers; where it     *)
(* calls QThread.wait() it stops until that worker has finished.           *)
(***************************************************************************)
InLoop == [op |-> "loop", wait_for |-> 0, idx |-> 0]

\* the tab as add_new_query_tab stores it (app.py:4508-4526)
NewTab == [current_query |-> <<>>, current_page |-> 0, total_rows |-> 0,
           page_size |-> DefaultPageSize, streaming_thread |-> 0,
           columns |-> <<>>, results_table |-> <<>>,
           cancel_btn |-> FALSE, first_page_btn |-> TRUE,
           prev_page_btn |-> TRUE, next_page_btn |-> TRUE,
           last_page_btn |-> TRUE, page_size_combo |-> TRUE,
           progress_bar |-> 0,
           \* setVisible() of the single-result widgets, cancel button and
           \* page controls among them
           single_result_visible |-> TRUE,
           \* the result pages of multi_query_widget, one per statement
           multi_query_widget |-> <<>>,
           \* tab_index in self.query_tabs
           in_query_tabs |-> TRUE,
           \* the key of the session in self.query_tabs, which is the
           \* index of its tab in query_tab_widget
           key |-> 0]

\* the session after "tab_data.clear(); del self.query_tabs[index]"
ClosedTab == [NewTab EXCEPT !.in_query_tabs = FALSE]

\* the texts the user puts into the editor; each is one statement
EditorTexts == {SelectPlain, InsertStmt}
PageTexts == {SelectPlain, SelectLimit, SelectComment, SelectLimitComment,
              SelectLower, SpaceSelect, WithSelect, ExplainSelect, SelectedWord}

Unborn == {w \in Workers : threads[w].pc = "unborn"}

\* the record of a thread object that no longer exists
Gone == [NoThread EXCEPT !.pc = "done"]

\* the thread object `old` loses its last reference when the tab's
\* streaming_thread is overwritten; a finished one is deleted with all that
\* was recorded of it, its queued events stay queued.  With keepFinished the
\* observer keeps the record of every worker.
Unreferenced(keepFinished, old) ==
    IF keepFinished \/ old = 0 THEN {}
    ELSE IF threads[old].pc = "done" THEN {old} ELSE {}

Without(f, gone, blank) == [w \in DOMAIN f |-> IF w \in gone THEN blank ELSE f[w]]

Release(gone) ==
    /\ threads' = Without(threads, gone, Gone)
    /\ emitted' = Without(emitted, gone, <<>>)
    /\ cancelAt' = Without(cancelAt, gone, "")
    /\ failedCall' = Without(failedCall, gone, {})

Running(w) == threads[w].pc \notin {"unborn", "done"}

\* StreamingQueryThread.cancel(), called by the control thread
CancelThread(w) ==
    /\ threads' = [threads EXCEPT ![w].is_cancelled = TRUE]
    /\ cancelAt' = [cancelAt EXCEPT ![w] = IF @ = "" THEN threads[w].pc ELSE @]

DisablePaginationControls(t) ==
    [t EXCEPT !.first_page_btn = FALSE, !.prev_page_btn = FALSE,
              !.next_page_btn = FALSE, !.last_page_btn = FALSE,
              !.page_size_combo = FALSE]

UpdatePaginationButtons(t) ==
    LET max_page == (t.total_rows - 1) \div t.page_size IN
    [t EXCEPT !.first_page_btn = t.current_page > 0,
              !.prev_page_btn = t.current_page > 0,
              !.next_page_btn = IF t.total_rows > 0
                                THEN t.current_page < max_page ELSE TRUE,
              !.last_page_btn = IF t.total_rows > 0
                                THEN t.current_page < max_page ELSE FALSE]

\* an enabling that leaves the page-size box as it is
PageSizeBoxLeftAlone(t) == UpdatePaginationButtons(t)

EnablePaginationControls(t) ==
    UpdatePaginationButtons([t EXCEPT !.page_size_combo = TRUE])

\* execute_streaming_query up to and including streaming_thread.wait(): `t` is
\* the tab as the calling handler has left it
ExecuteStreamingQuery(t) ==
    /\ Unborn # {}
    /\ tab' = DisablePaginationControls(
                  [t EXCEPT !.cancel_btn = TRUE, !.progress_bar = 0,
                            !.single_result_visible = TRUE])
    /\ control' = [InLoop EXCEPT !.op = "execute_streaming_query",
                               !.wait_for = t.streaming_thread]
    /\ IF t.streaming_thread # 0
       THEN CancelThread(t.streaming_thread)
       ELSE UNCHANGED <<threads, cancelAt>>
    /\ UNCHANGED <<exportVars, table, query_tab_widget, posted, emitted, failedCall>>

\* a wait() that returns while the worker is still running
JoinedAtOnce(w) == TRUE

\* wait() has returned
Joined(w) == IF w = 0 THEN TRUE ELSE threads[w].pc = "done"

\* execute_streaming_query after the wait: the new thread is made from the
\* query, page size and offset read at app.py:5202-5204, stored and started
StartStreamingThread(keepFinished) ==
    /\ control.op = "execute_streaming_query"
    /\ Joined(control.wait_for)
    /\ LET gone == Unreferenced(keepFinished, tab.streaming_thread)
           w == CHOOSE v \in Unborn : \A u \in Unborn : v <= u IN
       /\ threads' = [Without(threads, gone, Gone) EXCEPT ![w] =
              [NewThread(tab.current_query, tab.page_size,
                         tab.current_page * tab.page_size)
                   EXCEPT !.tab_index = tab.key]]
       /\ emitted' = Without(emitted, gone, <<>>)
       /\ cancelAt' = Without(cancelAt, gone, "")
       /\ failedCall' = Without(failedCall, gone, {})
       /\ tab' = [tab EXCEPT !.streaming_thread = w]
    /\ control' = InLoop
    /\ UNCHANGED <<exportVars, table, query_tab_widget, sql_editor, queries, posted>>

\* execute_multiple_queries up to its loop over the statements (lines
\* 4695-4777): the single-result widgets are hidden and the result pages of
\* an earlier run are cleared; the tab's streaming thread is left as it is
ExecuteMultipleQueries ==
    /\ tab' = [tab EXCEPT !.single_result_visible = FALSE,
                          !.multi_query_widget = <<>>]
    /\ control' = [InLoop EXCEPT !.op = "execute_multiple_queries", !.idx = 1]
    /\ UNCHANGED <<exportVars, table, query_tab_widget, threads, posted, emitted, cancelAt,
                   failedCall>>

\* the process has ended: an error that no handler catches, raised in a
\* slot, ends it (PyQt5 from 5.5 on calls qFatal, and the source installs no
\* sys.excepthook), and so does destroying a QThread whose run() has not
\* returned
Aborted == [InLoop EXCEPT !.op = "aborted"]
Alive == control.op # "aborted"

\* execute_query_for_tab: the editor's text is stripped and split; several
\* statements go to execute_multiple_queries, one goes to
\* execute_streaming_query.  An empty text ends the handler with a warning.
\* A text that splits into no statement raises IndexError at queries[0],
\* before anything is stored: the process ends, or, with bindings older than
\* 5.5, the traceback is printed and the event loop goes on.
ExecuteQueryForTab ==
    /\ control = InLoop
    /\ LET query_text == StripText(sql_editor)
           split == SplitSqlStatements(query_text) IN
       /\ query_text # <<>>
       /\ queries' = split
       /\ IF split = <<>>
          THEN /\ control' \in {InLoop, Aborted}
               /\ UNCHANGED <<exportVars, table, query_tab_widget, tab, threads, posted,
                              emitted, cancelAt, failedCall>>
          ELSE IF Len(split) > 1
          THEN ExecuteMultipleQueries
          ELSE ExecuteStreamingQuery([tab EXCEPT !.current_query = split[1],
                                                 !.current_page = 0,
                                                 !.total_rows = 0])
    /\ UNCHANGED sql_editor

\* the page of multi_query_widget for one statement (tab_state, lines
\* 4836-4852, filled at 4868-4876 or left empty at 4893 and 4909)
ResultPage(query, res) ==
    [query |-> query,
     columns |-> IF res.ok THEN res.description ELSE <<>>,
     all_data |-> IF res.ok /\ res.description # <<>> THEN res.rows ELSE <<>>,
     error |-> res.msg]

\* one pass of execute_multiple_queries' loop (lines 4780-4926), entered when
\* QApplication.processEvents() has delivered every queued event:
\* connection.execute(query) and cursor.fetchall() run on the control thread
MultiQueryStatement(mayFail) ==
    /\ control.op = "execute_multiple_queries"
    /\ posted = <<>>
    /\ \E engineFails \in EngineFails("execute", mayFail) :
         LET query == queries[control.idx]
             res == EngineCall(query, engineFails) IN
         tab' = [tab EXCEPT !.multi_query_widget = Append(@, ResultPage(query, res))]
    /\ control' = IF control.idx < Len(queries)
                  THEN [control EXCEPT !.idx = @ + 1]
                  ELSE InLoop
    /\ UNCHANGED <<exportVars, table, query_tab_widget, sql_editor, queries, threads, posted,
                   emitted, cancelAt, failedCall>>

\* go_to_page without "if page_number < 0: page_number = 0"
GoToPageAsGiven(page_number) ==
    ExecuteStreamingQuery([tab EXCEPT !.current_page = page_number])

GoToPage(page_number) ==
    ExecuteStreamingQuery([tab EXCEPT !.current_page =
                              IF page_number < 0 THEN 0 ELSE page_number])

\* go_to_page_for_widget(query_tab_widget, tab_index, page): go_to_page with
\* a page number of the caller's
GoToPageForWidget(page) ==
    /\ control = InLoop
    /\ tab.single_result_visible
    /\ GoToPage(page)
    /\ UNCHANGED <<sql_editor, queries>>

FirstPage ==
    /\ control = InLoop
    /\ tab.single_result_visible
    /\ tab.first_page_btn
    /\ GoToPage(0)
    /\ UNCHANGED <<sql_editor, queries>>

PrevPage ==
    /\ control = InLoop
    /\ tab.single_result_visible
    /\ tab.prev_page_btn
    /\ tab.current_page > 0
    /\ GoToPage(tab.current_page - 1)
    /\ UNCHANGED <<sql_editor, queries>>

NextPage ==
    /\ control = InLoop
    /\ tab.single_result_visible
    /\ tab.next_page_btn
    /\ GoToPage(tab.current_page + 1)
    /\ UNCHANGED <<sql_editor, queries>>

GoToLastPage ==
    /\ control = InLoop
    /\ tab.single_result_visible
    /\ tab.last_page_btn
    /\ tab.total_rows > 0
    /\ GoToPage((tab.total_rows - 1) \div tab.page_size)
    /\ UNCHANGED <<sql_editor, queries>>

\* the user picks another item of page_size_combo: change_page_size
\* change_page_size without "tab_data['current_page'] = 0"
ChangePageSizeKeepsPage(n) ==
    /\ control = InLoop
    /\ tab.single_result_visible
    /\ tab.page_size_combo
    /\ n # tab.page_size
    /\ IF tab.current_query # <<>>
       THEN ExecuteStreamingQuery([tab EXCEPT !.page_size = n])
       ELSE /\ tab' = [tab EXCEPT !.page_size = n]
            /\ UNCHANGED <<exportVars, table, query_tab_widget, threads, posted, control, emitted, cancelAt,
                           failedCall>>
    /\ UNCHANGED <<sql_editor, queries>>

ChangePageSize(n) ==
    /\ control = InLoop
    /\ tab.single_result_visible
    /\ tab.page_size_combo
    /\ n # tab.page_size
    /\ IF tab.current_query # <<>>
       THEN ExecuteStreamingQuery([tab EXCEPT !.page_size = n, !.current_page = 0])
       ELSE /\ tab' = [tab EXCEPT !.page_size = n]
            /\ UNCHANGED <<exportVars, table, query_tab_widget, threads, posted, control, emitted, cancelAt,
                           failedCall>>
    /\ UNCHANGED <<sql_editor, queries>>

\* cancel_query up to and including streaming_thread.wait()
CancelQuery ==
    /\ control = InLoop
    /\ tab.single_result_visible
    /\ tab.cancel_btn
    /\ control' = [InLoop EXCEPT !.op = "cancel_query",
                               !.wait_for = tab.streaming_thread]
    /\ IF tab.streaming_thread # 0
       THEN CancelThread(tab.streaming_thread)
       ELSE UNCHANGED <<threads, cancelAt>>
    /\ UNCHANGED <<exportVars, table, query_tab_widget, sql_editor, queries, tab, posted, emitted, failedCall>>

\* cancel_query after the wait
CancelQueryDone(keepFinished) ==
    /\ control.op = "cancel_query"
    /\ Joined(control.wait_for)
    /\ tab' = EnablePaginationControls(
                  [tab EXCEPT !.streaming_thread = 0, !.cancel_btn = FALSE])
    /\ control' = InLoop
    /\ Release(Unreferenced(keepFinished, tab.streaming_thread))
    /\ UNCHANGED <<exportVars, table, query_tab_widget, sql_editor, queries, posted>>

\* the user adds a tab beside the session's: add_new_query_tab
AddNewQueryTab ==
    /\ control = InLoop
    /\ query_tab_widget < MaxTabs
    /\ query_tab_widget' = query_tab_widget + 1
    /\ UNCHANGED <<exportVars, table, sql_editor, queries, tab, threads, posted,
                   control, emitted, cancelAt, failedCall>>

\* the user closes a tab that comes after the session's, or any tab but the
\* last when the session is gone: close_query_tab on it; the keys of the
\* tabs before it stay
CloseOtherTab ==
    /\ control = InLoop
    /\ query_tab_widget > (IF tab.in_query_tabs THEN tab.key + 1 ELSE 1)
    /\ query_tab_widget' = query_tab_widget - 1
    /\ UNCHANGED <<exportVars, table, sql_editor, queries, tab, threads, posted,
                   control, emitted, cancelAt, failedCall>>

\* a close_query_tab that stops no thread
NoThreadToStop(t) == 0

\* the thread close_query_tab cancels and waits for (lines 4558-4560)
ThreadToStop(t) == t.streaming_thread

\* close_query_tab on the session's tab, up to and including
\* streaming_thread.wait(); the last tab is never closed
CloseQueryTab ==
    /\ control = InLoop
    /\ tab.in_query_tabs
    /\ query_tab_widget > 1
    /\ control' = [InLoop EXCEPT !.op = "close_query_tab",
                               !.wait_for = ThreadToStop(tab)]
    /\ IF ThreadToStop(tab) # 0
       THEN CancelThread(ThreadToStop(tab))
       ELSE UNCHANGED <<threads, cancelAt>>
    /\ UNCHANGED <<exportVars, table, query_tab_widget, sql_editor, queries, tab,
                   posted, emitted, failedCall>>

\* close_query_tab after the wait (lines 4561-4591): the session is cleared
\* and removed from query_tabs, the tab is removed from the widget
CloseQueryTabDone(keepFinished) ==
    /\ control.op = "close_query_tab"
    /\ Joined(control.wait_for)
    /\ tab' = ClosedTab
    /\ query_tab_widget' = query_tab_widget - 1
    /\ control' = InLoop
    /\ Release(Unreferenced(keepFinished, tab.streaming_thread))
    /\ UNCHANGED <<exportVars, table, sql_editor, queries, posted>>

\* the control thread delivers queued events in its event loop and inside
\* the QApplication.processEvents() of execute_multiple_queries (line 4863)
Dispatching == control.op \in {"loop", "execute_multiple_queries"}

\* the handler of an event looks up query_tabs[tab_index] with the
\* tab_index its lambda holds: the session receives the event when it is
\* still in query_tabs under that key.  Under another key the event goes to
\* the session that now has the key, if there is one, whose fields are not
\* part of the state.
Receives(ev) == tab.in_query_tabs /\ threads[ev.w].tab_index = tab.key

\* the control thread delivers the oldest queued signal
HandleBatchReady ==
    /\ Dispatching
    /\ posted # <<>>
    /\ Head(posted).kind = "batch"
    /\ LET ev == Head(posted)
           t1 == [tab EXCEPT !.columns = ev.columns,
                             !.total_rows = IF ev.total_count > 0
                                            THEN ev.total_count ELSE @,
                             !.results_table = ev.data]
           t2 == UpdatePaginationButtons(t1) IN
       tab' = IF Receives(ev)
              THEN EnablePaginationControls([t2 EXCEPT !.cancel_btn = FALSE])
              ELSE tab
    /\ posted' = Tail(posted)
    /\ UNCHANGED <<exportVars, table, query_tab_widget, sql_editor, queries, threads, control, emitted, cancelAt, failedCall>>

HandleStreamingError ==
    /\ Dispatching
    /\ posted # <<>>
    /\ Head(posted).kind = "error"
    /\ tab' = IF Receives(Head(posted))
              THEN EnablePaginationControls([tab EXCEPT !.cancel_btn = FALSE])
              ELSE tab
    /\ posted' = Tail(posted)
    /\ UNCHANGED <<exportVars, table, query_tab_widget, sql_editor, queries, threads, control, emitted, cancelAt, failedCall>>

HandleProgressUpdate ==
    /\ Dispatching
    /\ posted # <<>>
    /\ Head(posted).kind = "progress"
    /\ tab' = IF Receives(Head(posted))
              THEN [tab EXCEPT !.progress_bar = Head(posted).progress]
              ELSE tab
    /\ posted' = Tail(posted)
    /\ UNCHANGED <<exportVars, table, query_tab_widget, sql_editor, queries, threads, control, emitted, cancelAt, failedCall>>

(***************************************************************************)
(* FullExportQueryThread.run and the export handlers of DuckDBSQLApp.  As  *)
(* in the streaming worker, an action of run() is the stretch of code from *)
(* one read of the cancellation flag to the next.                          *)
(***************************************************************************)
ExportWorkers == DOMAIN export_threads

\* the attribute export_progress_dialog is unset ("none"), or holds a dialog
\* that is shown or hidden; `thread` is the worker whose cancel() the
\* dialog's canceled signal is connected to (line 5547)
NoDialog == [state |-> "none", thread |-> 0, value |-> 0]
ShownDialog(e) == [state |-> "shown", thread |-> e, value |-> 0]

NoFile == [columns |-> <<>>, data |-> <<>>, written |-> FALSE]

\* FullExportQueryThread.__init__ followed by start().  Three fields are
\* the observer's: every event the worker has emitted, its position when
\* cancel() first set the flag, and the engine calls of it that raised.
NewExportThread(q) == [pc |-> "start", query |-> q, is_cancelled |-> FALSE,
                       columns |-> <<>>, cursor |-> <<>>, all_data |-> <<>>,
                       error |-> "",
                       emitted |-> <<>>, cancelAt |-> "", failedCall |-> {}]

\* run() leaves its try block: only "finally: gc.collect()" is left
ExportLeaves(th) == [NewExportThread(th.query) EXCEPT
                         !.pc = "finally", !.is_cancelled = th.is_cancelled,
                         !.emitted = th.emitted, !.cancelAt = th.cancelAt,
                         !.failedCall = th.failedCall]

\* an engine call of the export worker has raised
ExportRaise(th, call, m) ==
    [th EXCEPT !.pc = "except", !.error = m, !.failedCall = @ \cup {call}]

ExportRunning(e) == export_threads[e].pc # "done"

\* the thread object `e` is destroyed or is scheduled for deletion while
\* its run() has not returned
LosesRunningThread(e) == IF e = 0 THEN FALSE ELSE ExportRunning(e)

\* Qt ends the process when a running QThread is destroyed; whether the
\* object is destroyed before run() returns is not decided by the code
MayAbort(e) == IF LosesRunningThread(e) THEN {InLoop, Aborted} ELSE {InLoop}

\* the main window takes input: no window-modal dialog is shown over it
WindowEnabled == export_progress_dialog.state # "shown"

ExportProgress(e, v) == [Event(e, "export_progress") EXCEPT !.progress = v]
ExportReady(e, cols, rows) ==
    [Event(e, "export_ready") EXCEPT !.columns = cols, !.data = rows]
ExportError(e, m) == [Event(e, "export_error") EXCEPT !.message = m]

\* a step of export worker e: its record becomes th and it emits evs
ExportStep(e, th, evs) ==
    /\ Alive
    /\ export_threads' = [export_threads EXCEPT
                              ![e] = [th EXCEPT !.emitted = @ \o evs]]
    /\ posted' = posted \o evs
    /\ UNCHANGED <<table, query_tab_widget, sql_editor, queries, tab, threads, control, emitted,
                   cancelAt, failedCall, export_query_thread,
                   export_progress_dialog, export_file>>

\* line 1795
ExportRunStart(e) ==
    /\ export_threads[e].pc = "start"
    /\ ExportStep(e, [export_threads[e] EXCEPT !.pc = "check_start"],
                  <<ExportProgress(e, 10)>>)

\* lines 1797-1806: cursor.description of a statement without a result is
\* None, and iterating it raises
ExportRunExecute(e, mayFail) ==
    /\ export_threads[e].pc = "check_start"
    /\ LET th == export_threads[e] IN
       IF th.is_cancelled THEN ExportStep(e, ExportLeaves(th), <<>>)
       ELSE \E engineFails \in EngineFails("execute", mayFail) :
              LET res == EngineCall(CleanQuery(th.query), engineFails) IN
              IF res.ok /\ res.description # <<>>
              THEN ExportStep(e, [th EXCEPT !.pc = "check_executed",
                                            !.cursor = res.rows,
                                            !.columns = res.description],
                              <<ExportProgress(e, 30)>>)
              ELSE IF res.ok
              THEN ExportStep(e, [th EXCEPT
                                      !.pc = "except",
                                      !.error = "'NoneType' object is not iterable"],
                              <<ExportProgress(e, 30)>>)
              ELSE ExportStep(e, ExportRaise(th, "execute", res.msg),
                              <<ExportProgress(e, 30)>>)

\* lines 1808-1815
ExportRunBeginFetch(e) ==
    /\ export_threads[e].pc = "check_executed"
    /\ LET th == export_threads[e] IN
       IF th.is_cancelled THEN ExportStep(e, ExportLeaves(th), <<>>)
       ELSE ExportStep(e, [th EXCEPT !.pc = "check_fetch"],
                       <<ExportProgress(e, 50)>>)

\* min(90, 50 + (len(all_data) // batch_size) * 5)
ExportFetchProgress(n) == Min(90, 50 + (n \div ExportBatchRows) * 5)

\* lines 1817-1826: one pass of "while True"
ExportRunFetch(e, mayFail) ==
    /\ export_threads[e].pc = "check_fetch"
    /\ LET th == export_threads[e] IN
       IF th.is_cancelled THEN ExportStep(e, ExportLeaves(th), <<>>)
       ELSE \E engineFails \in EngineFails("fetch", mayFail) :
              IF engineFails
              THEN ExportStep(e, ExportRaise(th, "fetch", "engine error"), <<>>)
              ELSE LET k == Min(ExportBatchRows, Len(th.cursor))
                       batch == SubSeq(th.cursor, 1, k)
                       all_data == th.all_data \o batch IN
                   IF batch = <<>>
                   THEN ExportStep(e, [th EXCEPT !.pc = "check_final"], <<>>)
                   ELSE ExportStep(e,
                            [th EXCEPT !.all_data = all_data,
                                       !.cursor = SubSeq(th.cursor, k + 1,
                                                         Len(th.cursor))],
                            <<ExportProgress(e, ExportFetchProgress(Len(all_data)))>>)

\* lines 1828-1829
ExportRunCheckFinal(e) ==
    /\ export_threads[e].pc = "check_final"
    /\ LET th == export_threads[e] IN
       ExportStep(e, IF th.is_cancelled THEN ExportLeaves(th)
                     ELSE [th EXCEPT !.pc = "emit_ready"], <<>>)

\* lines 1831-1832
ExportRunEmitReady(e) ==
    /\ export_threads[e].pc = "emit_ready"
    /\ LET th == export_threads[e] IN
       ExportStep(e, ExportLeaves(th),
                  <<ExportProgress(e, 100), ExportReady(e, th.columns, th.all_data)>>)

\* lines 1834-1836
ExportRunExcept(e) ==
    /\ export_threads[e].pc = "except"
    /\ LET th == export_threads[e] IN
       ExportStep(e, IF th.is_cancelled THEN ExportLeaves(th)
                     ELSE [th EXCEPT !.pc = "emit_error"], <<>>)

ExportRunEmitError(e) ==
    /\ export_threads[e].pc = "emit_error"
    /\ LET th == export_threads[e] IN
       ExportStep(e, ExportLeaves(th), <<ExportError(e, th.error)>>)

\* lines 1837-1839: gc.collect(), and run() returns
ExportRunFinally(e) ==
    /\ export_threads[e].pc = "finally"
    /\ ExportStep(e, [export_threads[e] EXCEPT !.pc = "done"], <<>>)

ExportRun(e, mayFail) ==
    \/ ExportRunStart(e) \/ ExportRunExecute(e, mayFail)
    \/ ExportRunBeginFetch(e) \/ ExportRunFetch(e, mayFail)
    \/ ExportRunCheckFinal(e) \/ ExportRunEmitReady(e)
    \/ ExportRunExcept(e) \/ ExportRunEmitError(e) \/ ExportRunFinally(e)

\* export_results: with no query to run again it warns and returns;
\* otherwise a new dialog is shown over the window and a new worker is
\* stored in export_query_thread, whatever was stored there, and started
ExportResults ==
    /\ control = InLoop
    /\ WindowEnabled
    /\ tab.current_query # <<>>
    /\ Len(export_threads) < MaxExports
    /\ LET e == Len(export_threads) + 1 IN
       /\ export_threads' = Append(export_threads, NewExportThread(tab.current_query))
       /\ export_query_thread' = e
       /\ export_progress_dialog' = ShownDialog(e)
    /\ control' \in MayAbort(export_query_thread)
    /\ UNCHANGED <<table, query_tab_widget, sql_editor, queries, tab, threads, posted, emitted,
                   cancelAt, failedCall, export_file>>

\* the user presses Cancel in the progress dialog: the dialog hides itself
\* and its canceled signal calls cancel() of the worker it was connected to
ExportDialogCancel ==
    /\ control = InLoop
    /\ export_progress_dialog.state = "shown"
    /\ export_progress_dialog' = [export_progress_dialog EXCEPT !.state = "hidden"]
    /\ export_threads' = [export_threads EXCEPT
           ![export_progress_dialog.thread] =
               [@ EXCEPT !.is_cancelled = TRUE,
                         !.cancelAt = IF @ = "" THEN export_threads[
                                          export_progress_dialog.thread].pc
                                      ELSE @]]
    /\ UNCHANGED <<table, query_tab_widget, sql_editor, queries, tab, threads, posted, control,
                   emitted, cancelAt, failedCall, export_query_thread,
                   export_file>>

\* update_export_progress
UpdateExportProgress ==
    /\ Dispatching
    /\ posted # <<>>
    /\ Head(posted).kind = "export_progress"
    /\ export_progress_dialog' =
           IF export_progress_dialog.state # "none"
           THEN [export_progress_dialog EXCEPT !.value = Head(posted).progress]
           ELSE export_progress_dialog
    /\ posted' = Tail(posted)
    /\ UNCHANGED <<table, query_tab_widget, sql_editor, queries, tab, threads, control, emitted,
                   cancelAt, failedCall, export_threads, export_query_thread,
                   export_file>>

\* the cleaning up of lines 5575-5580 and 5589-5594: deleteLater() and
\* delattr of whatever export_query_thread holds
ExportCleanUp ==
    /\ export_query_thread' = 0
    /\ control' \in IF control = InLoop THEN MayAbort(export_query_thread)
                    ELSE {control}

\* handle_export_data_ready
HandleExportDataReady ==
    /\ Dispatching
    /\ posted # <<>>
    /\ Head(posted).kind = "export_ready"
    /\ export_progress_dialog' = NoDialog
    /\ export_file' = [columns |-> Head(posted).columns,
                       data |-> Head(posted).data, written |-> TRUE]
    /\ ExportCleanUp
    /\ posted' = Tail(posted)
    /\ UNCHANGED <<table, query_tab_widget, sql_editor, queries, tab, threads, emitted, cancelAt,
                   failedCall, export_threads>>

\* handle_export_error
HandleExportError ==
    /\ Dispatching
    /\ posted # <<>>
    /\ Head(posted).kind = "export_error"
    /\ export_progress_dialog' = NoDialog
    /\ ExportCleanUp
    /\ posted' = Tail(posted)
    /\ UNCHANGED <<table, query_tab_widget, sql_editor, queries, tab, threads, emitted, cancelAt,
                   failedCall, export_threads, export_file>>

(***************************************************************************)
(* The specifications.                                                     *)
(***************************************************************************)
\* rows of the table while the user acts at any time: a page of several
\* chunks whose last chunk is short
SessionRows == ChunkRows + 1

InitSession(rows, texts, n) ==
    /\ table \in rows
    /\ sql_editor \in texts
    /\ tab = NewTab
    /\ threads = [w \in 1..n |-> NoThread]
    /\ posted = <<>>
    /\ control = InLoop
    /\ emitted = [w \in 1..n |-> <<>>]
    /\ cancelAt = [w \in 1..n |-> ""]
    /\ failedCall = [w \in 1..n |-> {}]
    /\ queries = <<>>
    /\ export_threads = <<>>
    /\ export_query_thread = 0
    /\ export_progress_dialog = NoDialog
    /\ export_file = NoFile
    /\ query_tab_widget = 1

\* the user acts at any time the control thread is in its event loop
Init == InitSession({SessionRows}, EditorTexts, MaxWorkers)

Next ==
    \/ ExecuteQueryForTab
    \/ StartStreamingThread(FALSE)
    \/ FirstPage \/ PrevPage \/ NextPage \/ GoToLastPage
    \/ \E n \in PageSizeChoices : ChangePageSize(n)
    \/ CancelQuery \/ CancelQueryDone(FALSE)
    \/ HandleBatchReady \/ HandleStreamingError \/ HandleProgressUpdate
    \/ \E w \in Workers : Run(w, EngineCalls)

Spec == Init /\ [][Next]_vars

\* the user waits for the page asked for before asking for another: no
\* worker is running and no event is waiting; of the engine's calls only the
\* count can raise for a reason of the engine's own
Quiet == posted = <<>> /\ \A w \in Workers : ~Running(w)

InitPage == InitSession(0..MaxRows, PageTexts, MaxPageLoads)

NextPageLoads ==
    \/ Quiet /\ ExecuteQueryForTab
    \/ StartStreamingThread(TRUE)
    \/ Quiet /\ FirstPage
    \/ Quiet /\ PrevPage
    \/ Quiet /\ NextPage
    \/ Quiet /\ GoToLastPage
    \/ \E n \in PageSizeChoices : Quiet /\ ChangePageSize(n)
    \/ HandleBatchReady \/ HandleStreamingError \/ HandleProgressUpdate
    \/ \E w \in Workers : Run(w, {"count"})

SpecPage == InitPage /\ [][NextPageLoads]_vars

\* split_sql_statements on every text of up to MaxTextLen characters
SplitUnits == {Word, Semi, SingleQuote, DoubleQuote, Dashes, Space, Newline,
               Backslash}
TextsUpTo(n) == UNION {[1..k -> SplitUnits] : k \in 0..n}

InitSplit == InitSession({0}, TextsUpTo(MaxTextLen), 0)

\* the call split_sql_statements(query_text) and its return
CallSplitSqlStatements ==
    /\ control = InLoop
    /\ queries' = SplitSqlStatements(sql_editor)
    /\ control' = [InLoop EXCEPT !.op = "split_sql_statements"]
    /\ UNCHANGED <<exportVars, table, query_tab_widget, sql_editor, tab, threads, posted, emitted,
                   cancelAt, failedCall>>

SpecSplit == InitSplit /\ [][CallSplitSqlStatements]_vars

\* split_sql_statements has returned `queries` for the text of the editor
Split == control.op = "split_sql_statements"

\* the user replaces the text of the editor between two submits, with one
\* statement or with several; no engine call raises for a reason of its own
MultiTexts == {SelectPlain, SelectLimit, TwoStatements}

\* the user types into sql_editor (QTextEdit of the tab, app.py:4470)
EditText(text) ==
    /\ control = InLoop
    /\ text # sql_editor
    /\ sql_editor' = text
    /\ UNCHANGED <<exportVars, table, query_tab_widget, queries, tab, threads, posted, control,
                   emitted, cancelAt, failedCall>>

InitMulti == InitSession({SessionRows}, MultiTexts, MaxWorkers)

NextMulti ==
    \/ \E text \in MultiTexts : EditText(text)
    \/ ExecuteQueryForTab
    \/ StartStreamingThread(FALSE)
    \/ MultiQueryStatement({})
    \/ FirstPage \/ NextPage
    \/ \E n \in PageSizeChoices : ChangePageSize(n)
    \/ CancelQuery \/ CancelQueryDone(FALSE)
    \/ HandleBatchReady \/ HandleStreamingError \/ HandleProgressUpdate
    \/ \E w \in Workers : Run(w, {})

SpecMulti == InitMulti /\ [][NextMulti]_vars

\* the user submits one statement, lets its page arrive, and exports its
\* result, cancelling the export and exporting again as the dialog allows;
\* execute() may raise for a reason of the engine's own
NoStreaming == \A w \in Workers : ~Running(w)

InitExport == InitSession({SessionRows}, EditorTexts, 1)

NextExport ==
    \/ WindowEnabled /\ Alive /\ ExecuteQueryForTab
    \/ StartStreamingThread(TRUE)
    \/ HandleBatchReady \/ HandleStreamingError \/ HandleProgressUpdate
    \/ \E w \in Workers : Alive /\ Run(w, {"execute"})
    \/ NoStreaming /\ ExportResults
    \/ ExportDialogCancel
    \/ UpdateExportProgress \/ HandleExportDataReady \/ HandleExportError
    \/ \E e \in ExportWorkers : ExportRun(e, {"execute"})

SpecExport == InitExport /\ [][NextExport]_vars

\* the user submits a statement with or without a LIMIT clause, with or
\* without a string literal, and pages through its result
RewriteTexts == {SelectPlain, SelectLimit, SelectLiteral, SelectLiteralLimit}

InitRewrite == InitSession({SessionRows}, RewriteTexts, MaxPageLoads)

NextRewrite ==
    \/ Quiet /\ ExecuteQueryForTab
    \/ StartStreamingThread(TRUE)
    \/ Quiet /\ NextPage
    \/ HandleBatchReady \/ HandleStreamingError \/ HandleProgressUpdate
    \/ \E w \in Workers : Run(w, {"execute"})

SpecRewrite == InitRewrite /\ [][NextRewrite]_vars

\* the user submits a statement and moves through its pages, whether or
\* not the page asked for before has arrived; go_to_page is also called
\* with page numbers below and above the current one
PageNumbers == {-1, 0, 3}

InitNavigate == InitSession({2 * MaxRows}, EditorTexts, MaxPageLoads)

NextNavigate ==
    \/ ExecuteQueryForTab
    \/ StartStreamingThread(TRUE)
    \/ FirstPage \/ PrevPage \/ NextPage \/ GoToLastPage
    \/ \E page \in PageNumbers : GoToPageForWidget(page)
    \/ HandleBatchReady \/ HandleStreamingError \/ HandleProgressUpdate
    \/ \E w \in Workers : Run(w, {})

SpecNavigate == InitNavigate /\ [][NextNavigate]_vars

\* the user picks another page size before and after submitting a
\* statement and on a later page of its result
InitPageSize == InitSession({MaxRows}, {SelectPlain}, MaxPageLoads + 1)

NextPageSize ==
    \/ Quiet /\ ExecuteQueryForTab
    \/ StartStreamingThread(TRUE)
    \/ Quiet /\ NextPage
    \/ \E n \in PageSizeChoices : ChangePageSize(n)
    \/ HandleBatchReady \/ HandleStreamingError \/ HandleProgressUpdate
    \/ \E w \in Workers : Run(w, {"execute"})

SpecPageSize == InitPageSize /\ [][NextPageSize]_vars

\* the user also adds tabs and closes tabs, the session's among them
InitTabs == InitSession({SessionRows}, EditorTexts, MaxWorkers)

NextTabs ==
    \/ AddNewQueryTab \/ CloseOtherTab
    \/ CloseQueryTab \/ CloseQueryTabDone(TRUE)
    \/ tab.in_query_tabs /\ ExecuteQueryForTab
    \/ StartStreamingThread(FALSE)
    \/ tab.in_query_tabs /\ NextPage
    \/ tab.in_query_tabs /\ CancelQuery
    \/ CancelQueryDone(FALSE)
    \/ HandleBatchReady \/ HandleStreamingError \/ HandleProgressUpdate
    \/ \E w \in Workers : Run(w, {"execute"})

SpecTabs == InitTabs /\ [][NextTabs]_vars

(***************************************************************************)
(* What is observed of a worker.                                           *)
(***************************************************************************)
\* the number of events of kind k that worker w has emitted
NumOf(w, k) == Cardinality({i \in DOMAIN emitted[w] : emitted[w][i].kind = k})

\* the engine calls of worker w that raised
FailedCalls(w) == {c[1] : c \in failedCall[w]}

Started(w) == threads[w].pc # "unborn"

\* the most recently started worker, 0 before the first
LastStarted ==
    LET s == {w \in Workers : Started(w)} IN
    IF s = {} THEN 0 ELSE CHOOSE w \in s : \A v \in s : v <= w

\* the positions of run() inside "while row_count < self.batch_size"
FetchLoop == {"check_chunk", "process_chunk"}

\* the result of the statement itself, unpaged
Unpaged(q) == Execute(CleanQuery(q), table)

\* the batch events of worker w
Batches(w) == {emitted[w][i] : i \in {j \in DOMAIN emitted[w] :
                                        emitted[w][j].kind = "batch"}}

(***************************************************************************)
(* C1.  At most one streaming worker of the session is running in every    *)
(* reachable state, and every step that starts a worker finds the          *)
(* session's previous worker, if there is one, cancelled and finished.     *)
(***************************************************************************)
AtMostOneRunning == Cardinality({w \in Workers : Running(w)}) <= 1

StartsAfterCancelAndWait ==
    \A w \in Workers :
      (~Started(w) /\ Started(w)') =>
        IF tab.streaming_thread = 0 THEN TRUE
        ELSE /\ threads[tab.streaming_thread].is_cancelled
             /\ threads[tab.streaming_thread].pc = "done"

C1_OneStreamingWorker == [][AtMostOneRunning' /\ StartsAfterCancelAndWait]_vars

\* a second worker runs; its predecessor was cancelled, has finished, and
\* events of it are still queued
C1_Witness ==
    \E w \in Workers :
      /\ w > 1 /\ tab.streaming_thread = w /\ Running(w)
      /\ threads[w - 1].pc = "done"
      /\ \E i \in DOMAIN posted : posted[i].w = w - 1

(***************************************************************************)
(* C2.  Every batch that handle_batch_ready applies was produced by the    *)
(* session's most recently started worker: no batch of an earlier worker   *)
(* is delivered once a later worker has been started.                      *)
(***************************************************************************)
C2_NoStaleBatch ==
    [][(/\ control = InLoop
        /\ posted # <<>>
        /\ Head(posted).kind = "batch"
        /\ posted' = Tail(posted))
       => Head(posted).w = LastStarted]_vars

(***************************************************************************)
(* C3.  A worker whose cancel() came while it was in its fetch loop emits  *)
(* no batch-ready and no error event; and when the wait for it returns,    *)
(* the session is ready for a submit: after cancel_query the tab holds no  *)
(* worker and the control thread is back in its event loop with the text   *)
(* to submit; inside execute_streaming_query the new worker is started in  *)
(* that same step.                                                         *)
(***************************************************************************)
NoTerminalEvent(w) == NumOf(w, "batch") = 0 /\ NumOf(w, "error") = 0

C3_CancelInFetchLoop ==
    [][\A w \in Workers :
         /\ cancelAt'[w] \in FetchLoop => NoTerminalEvent(w)'
         /\ (/\ cancelAt[w] \in FetchLoop
             /\ control.wait_for = w
             /\ control' = InLoop)
            => IF control.op = "cancel_query"
               THEN tab'.streaming_thread = 0 /\ sql_editor' # <<>>
               ELSE /\ tab'.streaming_thread \notin {0, w}
                    /\ threads'[tab'.streaming_thread].pc = "start"]_vars

\* a worker cancelled in its fetch loop has finished, having emitted
\* progress events only
C3_Witness ==
    \E w \in Workers :
      /\ cancelAt[w] \in FetchLoop
      /\ threads[w].pc = "done"
      /\ NumOf(w, "progress") > 0

(***************************************************************************)
(* C4.  From the moment cancel() has set a worker's flag, the worker       *)
(* emits no further event of any kind.                                     *)
(***************************************************************************)
C4_SilentOnceCancelled ==
    [][\A w \in Workers :
         threads[w].is_cancelled => Len(emitted'[w]) <= Len(emitted[w])]_vars

(***************************************************************************)
(* C5.  The events of one worker are progress events followed by at most   *)
(* one terminal event, a batch-ready or an error: an event that is not a   *)
(* progress event is the last one.                                         *)
(***************************************************************************)
C5_ProgressThenOneTerminal ==
    \A w \in Workers :
      \A i \in DOMAIN emitted[w] :
        emitted[w][i].kind # "progress" => i = Len(emitted[w])

\* a worker has finished with progress events and then its batch
C5_Witness ==
    \E w \in Workers :
      /\ threads[w].pc = "done"
      /\ NumOf(w, "progress") >= 4
      /\ NumOf(w, "batch") = 1

(***************************************************************************)
(* C6.  A worker that was not cancelled and of which an execute or fetch   *)
(* call raised finishes with exactly one error event, which carries the    *)
(* engine's message, and with no batch; once its events are handled the    *)
(* session is idle: cancel disabled, page size enabled.                    *)
(***************************************************************************)
C6_FailureGivesOneError ==
    \A w \in Workers :
      \A c \in failedCall[w] :
        (/\ c[1] \in {"execute", "fetch"}
         /\ ~threads[w].is_cancelled
         /\ threads[w].pc = "done")
        => /\ NumOf(w, "batch") = 0
           /\ NumOf(w, "error") = 1
           /\ \A i \in DOMAIN emitted[w] :
                emitted[w][i].kind = "error" => emitted[w][i].message = c[2]
           /\ (/\ control = InLoop
               /\ \A i \in DOMAIN posted : posted[i].w # w)
              => ~tab.cancel_btn /\ tab.page_size_combo

(***************************************************************************)
(* C7.  A count query that raises does not fail the worker: no error       *)
(* event is emitted unless an execute or fetch call raised too, the        *)
(* worker, if nothing else stops it, goes on to emit its batch, and a      *)
(* batch it emits carries total_count = -1.                                *)
(***************************************************************************)
C7_CountFailureIsNotAnError ==
    \A w \in Workers :
      "count" \in FailedCalls(w) =>
        /\ \A ev \in Batches(w) : ev.total_count = -1
        /\ NumOf(w, "error") > 0 => FailedCalls(w) \cap {"execute", "fetch"} # {}
        /\ (/\ threads[w].pc = "done"
            /\ ~threads[w].is_cancelled
            /\ FailedCalls(w) = {"count"})
           => NumOf(w, "batch") = 1

\* a worker whose count query raised has emitted its batch
C7_Witness ==
    \E w \in Workers :
      /\ FailedCalls(w) = {"count"}
      /\ \E ev \in Batches(w) : ev.total_count = -1 /\ ev.data # <<>>

(***************************************************************************)
(* C8.  hasMore of the pages of a result of exactly pageSize rows and of   *)
(* pageSize + 1 rows.                                                      *)
(***************************************************************************)
\* what the claim says of a batch of worker w
HasMoreAsClaimed(w, ev) ==
    LET S == Unpaged(threads[w].query)
        R == Len(S.rows)
        N == threads[w].batch_size
        O == threads[w].offset IN
    S.ok => /\ (R = N /\ O = 0) => ~ev.has_more
            /\ (R = N + 1 /\ O = 0) => ev.has_more
            /\ (R = N + 1 /\ O = N) => ~ev.has_more

\* C8 as claimed: for a result of exactly pageSize rows page 0 has
\* hasMore = false, for a result of pageSize + 1 rows page 0 has hasMore = true
\* and page 1 has hasMore = false, whether the count succeeded or failed.
C8_HasMoreAnyCount ==
    \A w \in Workers :
      IsSelectQuery(threads[w].query) =>
        \A ev \in Batches(w) : HasMoreAsClaimed(w, ev)

\* C8 as amended: the same, for the workers whose count query succeeded.
C8_HasMoreWhenCounted ==
    \A w \in Workers :
      (IsSelectQuery(threads[w].query) /\ "count" \notin FailedCalls(w)) =>
        \A ev \in Batches(w) : HasMoreAsClaimed(w, ev)

\* page 1 of a result of pageSize + 1 rows, counted, has arrived with
\* hasMore = false, after a page 0 with hasMore = true
C8_Witness ==
    \E w, v \in Workers :
      /\ IsSelectQuery(threads[w].query)
      /\ threads[v].query = threads[w].query
      /\ threads[v].batch_size = threads[w].batch_size
      /\ Len(Unpaged(threads[w].query).rows) = threads[w].batch_size + 1
      /\ threads[v].offset = 0
      /\ threads[w].offset = threads[w].batch_size
      /\ "count" \notin FailedCalls(w) \cup FailedCalls(v)
      /\ \E ev \in Batches(v) : ev.has_more
      /\ \E ev \in Batches(w) : ~ev.has_more

(***************************************************************************)
(* C9.  For one statement and one page size over an unchanged table, the   *)
(* batches of pages 0 .. ceil(R/pageSize)-1, concatenated in page order,   *)
(* are the unpaged result.                                                 *)
(***************************************************************************)
\* the batches that arrived for page p of statement q with page size N
LoadedPage(q, N, p) ==
    {ev.data : ev \in UNION {Batches(w) : w \in
        {v \in Workers : /\ threads[v].query = q
                         /\ threads[v].batch_size = N
                         /\ threads[v].offset = p * N}}}

\* the concatenations, in page order, of the batches of pages 0 .. p
RECURSIVE Concatenated(_, _, _)
Concatenated(q, N, p) ==
    IF p = 0 THEN LoadedPage(q, N, 0)
    ELSE {c \o d : c \in Concatenated(q, N, p - 1), d \in LoadedPage(q, N, p)}

C9_PagesMakeTheResult ==
    \A w \in Workers :
      (Started(w) /\ IsSelectQuery(threads[w].query)) =>
        LET q == threads[w].query
            N == threads[w].batch_size
            S == Unpaged(q)
            k == (Len(S.rows) + N - 1) \div N IN
        (/\ S.ok
         /\ k >= 1
         /\ \A p \in 0..(k - 1) : LoadedPage(q, N, p) # {})
        => Concatenated(q, N, k - 1) = {ProcessRows(S.rows)}

(***************************************************************************)
(* C10.  The paginated statement a worker builds for a statement with      *)
(* result S, page size N and offset O returns rows O+1 .. min(O+N, |S|) of *)
(* S, where S is the statement's own result, its own LIMIT applied.        *)
(***************************************************************************)
C10_PageIsSliceOfResult ==
    \A w \in Workers :
      (Started(w) /\ IsSelectQuery(threads[w].query)) =>
        LET th == threads[w]
            S == Unpaged(th.query)
            P == Execute(PaginatedQuery(th.query, th.batch_size, th.offset),
                         table) IN
        S.ok => P.ok /\ P.rows = Slice(S.rows, th.batch_size, th.offset)

(***************************************************************************)
(* C11.  A worker takes the row-producing path (count, paginated           *)
(* statement, fetch loop) exactly when the first keyword of its statement, *)
(* leading white space trimmed and case ignored, is SELECT; a statement    *)
(* that begins with WITH, EXPLAIN or a longer word that starts with the    *)
(* letters SELECT takes the other path.                                    *)
(***************************************************************************)
\* the first word of a text, in upper case; "" for a text without one
FirstKeyword(q) == LET u == QueryUpper(q) IN IF u = <<>> THEN "" ELSE u[1].t

\* the positions of run() that only a statement classified as SELECT
\* reaches, and the one that only another statement reaches
RowProducingPath == {"check_count", "check_prepare", "check_chunk", "process_chunk"}
NonRowProducingPath == {"check_ns"}

C11_SelectIffFirstKeyword ==
    \A w \in Workers :
      /\ threads[w].pc \in RowProducingPath
           => FirstKeyword(threads[w].query) = "SELECT"
      /\ threads[w].pc \in NonRowProducingPath
           => FirstKeyword(threads[w].query) # "SELECT"

(***************************************************************************)
(* How a text reads: for each character, whether it is program text        *)
(* ("code"), the quote that opens or closes a string ("open", "close"), a  *)
(* character inside a string ("string"), or part of a line comment         *)
(* ("comment").  A string runs from a quote to the next occurrence of the  *)
(* same quote that no backslash precedes; a comment runs from "--" outside *)
(* a string to the end of its line.                                        *)
(***************************************************************************)
RECURSIVE LabelsFrom(_, _, _, _)
LabelsFrom(x, i, quote, comment) ==
    IF i > Len(x) THEN <<>>
    ELSE IF comment
    THEN IF x[i] = Newline THEN <<"code">> \o LabelsFrom(x, i + 1, quote, FALSE)
         ELSE <<"comment">> \o LabelsFrom(x, i + 1, quote, TRUE)
    ELSE IF quote # <<>>
    THEN IF x[i] = quote[1] /\ ~(i > 1 /\ x[i - 1] = Backslash)
         THEN <<"close">> \o LabelsFrom(x, i + 1, <<>>, FALSE)
         ELSE <<"string">> \o LabelsFrom(x, i + 1, quote, FALSE)
    ELSE IF x[i] = Dashes THEN <<"comment">> \o LabelsFrom(x, i + 1, quote, TRUE)
    ELSE IF x[i] \in {SingleQuote, DoubleQuote}
    THEN <<"open">> \o LabelsFrom(x, i + 1, <<x[i]>>, FALSE)
    ELSE <<"code">> \o LabelsFrom(x, i + 1, quote, FALSE)

Labels(x) == LabelsFrom(x, 1, <<>>, FALSE)

\* the semicolons outside every string and comment
TopSemis(x) == {i \in 1..Len(x) : x[i] = Semi /\ Labels(x)[i] = "code"}

\* the semicolons inside a string that is closed
QuotedSemis(x) ==
    {i \in 1..Len(x) : /\ x[i] = Semi
                       /\ Labels(x)[i] = "string"
                       /\ \E j \in (i + 1)..Len(x) : Labels(x)[j] = "close"}

\* the pieces of x between the semicolons at the positions `tops`
RECURSIVE PiecesFrom(_, _, _)
PiecesFrom(x, tops, from) ==
    LET later == {i \in tops : i >= from} IN
    IF later = {} THEN <<SubSeq(x, from, Len(x))>>
    ELSE LET e == CHOOSE i \in later : \A j \in later : i <= j IN
         <<SubSeq(x, from, e - 1)>> \o PiecesFrom(x, tops, e + 1)

\* the pieces that hold more than white space, trimmed
Statements(x) ==
    LET pieces == PiecesFrom(x, TopSemis(x), 1)
        trimmed == [k \in DOMAIN pieces |-> StripText(pieces[k])] IN
    SelectSeq(trimmed, LAMBDA p : p # <<>>)

\* a is a subsequence of b
RECURSIVE IsSubsequence(_, _)
IsSubsequence(a, b) ==
    IF a = <<>> THEN TRUE
    ELSE IF b = <<>> THEN FALSE
    ELSE IF a[1] = b[1] THEN IsSubsequence(Tail(a), Tail(b))
    ELSE IsSubsequence(a, Tail(b))

(***************************************************************************)
(* C12.  Splitting the statements of a split, joined with ';', gives the   *)
(* same statements again, for every text, those with a statement that ends *)
(* in a line comment or holds an unterminated string included.             *)
(***************************************************************************)
C12_SplitIdempotent ==
    Split => SplitSqlStatements(JoinStatements(queries)) = queries

(***************************************************************************)
(* C13.  split_sql_statements ends a statement at a semicolon only when    *)
(* the semicolon is outside every quoted string and outside every line     *)
(* comment: it returns one statement for each piece between such           *)
(* semicolons that holds more than white space; a piece that does not end  *)
(* in a semicolon is returned as it is, trimmed, and every semicolon       *)
(* inside a closed quoted literal is in the statement of its piece.        *)
(***************************************************************************)
C13_SplitsAtTopLevelSemicolons ==
    Split =>
      LET ref == Statements(sql_editor) IN
      /\ Len(queries) = Len(ref)
      /\ \A k \in DOMAIN queries :
           /\ k \in DOMAIN ref
           /\ ref[k][Len(ref[k])] # Semi => queries[k] = ref[k]
           /\ Cardinality(QuotedSemis(queries[k])) = Cardinality(QuotedSemis(ref[k]))

\* two statements separated by ';', the first with a ';' inside quotes,
\* have been split into exactly two statements
C13_Witness ==
    /\ Split
    /\ sql_editor = <<SingleQuote, Semi, SingleQuote, Semi, Word>>
    /\ queries = << <<SingleQuote, Semi, SingleQuote>>, <<Word>> >>

(***************************************************************************)
(* C14.  Every statement split_sql_statements returns is non-empty, has no *)
(* white space at either end and does not end with a semicolon; the        *)
(* statements are in the order of the text; the empty text and a text of   *)
(* semicolons and white space only give the empty list.                    *)
(***************************************************************************)
OnlySemisAndSpace(x) == \A i \in DOMAIN x : x[i] = Semi \/ IsSpace(x[i])

C14_StatementsAreTrimmed ==
    Split =>
      /\ \A k \in DOMAIN queries :
           /\ queries[k] # <<>>
           /\ ~IsSpace(queries[k][1])
           /\ ~IsSpace(queries[k][Len(queries[k])])
           /\ queries[k][Len(queries[k])] # Semi
      /\ IsSubsequence(JoinStatements(queries), sql_editor)
      /\ OnlySemisAndSpace(sql_editor) => queries = <<>>

(***************************************************************************)
(* C15.  Cell clamping.  In every batch a streaming worker has emitted,    *)
(* a bytes cell of the result longer than 10,000 bytes has become a str    *)
(* that states its size, a str cell longer than 50,000 characters has      *)
(* become its first 50,000 characters followed by the marker, and every    *)
(* other cell is the cell of the result; so no str of a batch is longer    *)
(* than 50,000 characters plus the marker and no bytes of a batch is       *)
(* longer than 10,000 bytes.  The rows of the table carry their number in  *)
(* the first cell, which names the row of the result a batch row came      *)
(* from.                                                                   *)
(***************************************************************************)
IsSummaryOf(cell, src) ==
    /\ cell.type = "str"
    /\ cell.form = "<Binary data: {} bytes>"
    /\ cell.v = src.len

IsTruncationOf(cell, src) ==
    /\ cell.type = "str"
    /\ cell.v = src.v /\ cell.form = src.form
    /\ cell.len = StringLimit
    /\ cell.tail = "... (truncated)"

ClampedAsClaimed(cell, src) ==
    IF src.type = "bytes" /\ src.len > 10000 THEN IsSummaryOf(cell, src)
    ELSE IF src.type = "str" /\ src.len > 50000 THEN IsTruncationOf(cell, src)
    ELSE cell = src

C15_CellsAreClamped ==
    \A w \in Workers : \A ev \in Batches(w) : \A r \in DOMAIN ev.data :
        LET row == ev.data[r] IN
        /\ \A c \in DOMAIN row :
             /\ row[c].type = "str" =>
                  CellLen(row[c]) <= 50000 + Len("... (truncated)")
             /\ row[c].type = "bytes" => CellLen(row[c]) <= 10000
        /\ row[1].type = "int" =>
             \A c \in DOMAIN row : ClampedAsClaimed(row[c], TableRow(row[1].v)[c])

\* a batch with the row of the 20,000-byte blob and the 60,000-character
\* text, both clamped, and with the first row, whose blob and text are at
\* the thresholds, unchanged
C15_Witness ==
    \E w \in Workers : \E ev \in Batches(w) : \E r, u \in DOMAIN ev.data :
        /\ ev.data[r][1] = IntCell(3)
        /\ ev.data[r][2].type = "str" /\ ev.data[r][2].v = 20000
        /\ ev.data[r][3].len = 50000 /\ ev.data[r][3].tail = "... (truncated)"
        /\ ev.data[u] = <<IntCell(1), BytesCell(1, 10000), StrCell(1, 50000)>>

(***************************************************************************)
(* C16.  The total of the session.  While the query of the session stays   *)
(* the same, through page navigation and page-size changes, total_rows     *)
(* never goes from a known value back to unknown, and every step that      *)
(* changes the query of the session, a submit of another text, leaves      *)
(* total_rows unknown, before the new worker starts; unknown is -1, which  *)
(* is neither 0, the empty result, nor a count.                            *)
(***************************************************************************)
QueryChanges == tab'.current_query # tab.current_query

C16_TotalRowsRefinedAndReset ==
    [][/\ ~QueryChanges /\ tab.total_rows # -1 => tab'.total_rows # -1
       /\ QueryChanges => tab'.total_rows = -1]_vars

(***************************************************************************)
(* C18.  Engine calls belong to the workers.  No step of the control       *)
(* thread executes a statement or fetches rows, whichever way the submit   *)
(* went, and no worker makes an engine call while the control thread is    *)
(* stopped in wait() for that worker.                                      *)
(***************************************************************************)
\* the control thread has run connection.execute for one more statement
\* of execute_multiple_queries
ControlThreadExecutes ==
    Len(tab'.multi_query_widget) > Len(tab.multi_query_widget)

\* worker w makes an engine call in this step: the count query, made before
\* the flag is read for the first time, or the fetchmany() that follows a
\* chunk which has not filled the batch
EngineCallBy(w) ==
    \/ /\ threads[w].pc = "start"
       /\ threads'[w].pc = "check_count"
    \/ /\ threads[w].pc = "process_chunk"
       /\ Len(ProcessChunk(threads[w]).batch_data) < threads[w].batch_size
       /\ threads'[w].pc # "process_chunk"

C18_EngineCallsOnlyOnWorkers ==
    [][/\ ~ControlThreadExecutes
       /\ \A w \in Workers : EngineCallBy(w) => control.wait_for # w]_vars

(***************************************************************************)
(* C20.  Every operation that starts new work first cancels the running    *)
(* streaming worker of the session and waits for it: a step that starts a  *)
(* worker finds the previous worker cancelled and finished, and a step     *)
(* that executes a statement of a submit of several statements finds no    *)
(* streaming worker of the session running.                                *)
(***************************************************************************)
C20_NewOperationCancelsAndWaits ==
    [][/\ StartsAfterCancelAndWait
       /\ ControlThreadExecutes => \A w \in Workers : ~Running(w)]_vars

(***************************************************************************)
(* C19.  After a terminal event.  Every step that handles a batch or an    *)
(* error of a streaming worker, or that ends cancel_query, leaves the      *)
(* cancel button disabled, the page-size box enabled and the control       *)
(* thread in its event loop; and a submit or page navigation made from     *)
(* the event loop goes through: it has cancelled the worker it waits for,  *)
(* and when the wait returns a new worker stands at its start with the     *)
(* query, page size and offset of the session.                             *)
(***************************************************************************)
TerminalEventHandled ==
    \/ /\ posted # <<>>
       /\ posted' = Tail(posted)
       /\ Head(posted).kind \in {"batch", "error"}
    \/ control.op = "cancel_query" /\ control'.op = "loop"

Resubmitted == control.op = "loop" /\ control'.op = "execute_streaming_query"

WorkerStarted == control.op = "execute_streaming_query" /\ control'.op = "loop"

C19_CleanAfterTerminalEvent ==
    [][/\ TerminalEventHandled =>
            /\ ~tab'.cancel_btn
            /\ tab'.page_size_combo
            /\ control' = InLoop
       /\ Resubmitted =>
            IF control'.wait_for = 0 THEN TRUE
            ELSE threads'[control'.wait_for].is_cancelled
       /\ WorkerStarted =>
            /\ tab'.streaming_thread # tab.streaming_thread
            /\ threads'[tab'.streaming_thread] =
                   NewThread(tab.current_query, tab.page_size,
                             tab.current_page * tab.page_size)]_vars

\* the batch of the first worker has been handled, and a submit or page
\* navigation that followed has started the second worker
C19_Witness ==
    /\ tab.results_table # <<>>
    /\ threads[1].pc = "done"
    /\ tab.streaming_thread = 2
    /\ threads[2].pc = "start"
    /\ control = InLoop
    /\ posted = <<>>

(***************************************************************************)
(* C17.  At most one export worker is live: in every reachable state at    *)
(* most one export worker has a run() that has not returned, and every     *)
(* step that starts an export worker finds every earlier export worker     *)
(* returned, having cancelled and waited for one that had not.             *)
(***************************************************************************)
AtMostOneExportRunning ==
    Cardinality({e \in ExportWorkers : ExportRunning(e)}) <= 1

ExportStarted == Len(export_threads') > Len(export_threads)

C17_OneExportWorker ==
    [][/\ AtMostOneExportRunning'
       /\ ExportStarted => \A e \in ExportWorkers : ~ExportRunning(e)]_vars

(***************************************************************************)
(* C21.  Closing a tab.  Every step in which close_query_tab removes the   *)
(* session from query_tabs finds the streaming worker of the session, if   *)
(* there is one, cancelled and returned, and in every reachable state in   *)
(* which the session is removed no streaming worker is running.            *)
(***************************************************************************)
SessionRemoved == tab.in_query_tabs /\ ~tab'.in_query_tabs

C21_CloseStopsTheWorker ==
    [][/\ SessionRemoved =>
            IF tab.streaming_thread = 0 THEN TRUE
            ELSE /\ threads[tab.streaming_thread].is_cancelled
                 /\ threads[tab.streaming_thread].pc = "done"
       /\ ~tab'.in_query_tabs => \A w \in Workers : ~Running(w)']_vars

\* the session was removed while its worker was in the fetch loop: the
\* worker was cancelled there and has returned, and events of it are still
\* queued
C21_Witness ==
    /\ ~tab.in_query_tabs
    /\ \E w \in Workers :
         /\ cancelAt[w] \in FetchLoop
         /\ threads[w].pc = "done"
    /\ posted # <<>>

(***************************************************************************)
(* C22.  The last-page button.  In every reachable state in which the      *)
(* session has no known total (total_rows is not positive, the test of     *)
(* lines 5319 and 5382) the last-page button is disabled, and no step      *)
(* moves the session to a last page then; a step that goes to the last     *)
(* page with a known total sets current_page to (total_rows - 1) div       *)
(* page_size and waits to start a worker.                                  *)
(***************************************************************************)
TotalUnknown == tab.total_rows <= 0

\* go_to_last_page has called go_to_page
WentToLastPage ==
    /\ control.op = "loop"
    /\ control'.op = "execute_streaming_query"
    /\ tab.last_page_btn
    /\ tab'.current_query = tab.current_query
    /\ tab'.page_size = tab.page_size
    /\ tab'.current_page > tab.current_page + 1

C22_LastPageNeedsTotal ==
    [][/\ TotalUnknown => ~tab.last_page_btn
       /\ WentToLastPage =>
            /\ ~TotalUnknown
            /\ tab'.current_page = (tab.total_rows - 1) \div tab.page_size]_vars

(***************************************************************************)
(* C24.  hasMore of a page.  Every batch emitted by a worker for a         *)
(* statement whose first keyword is SELECT carries the total its own       *)
(* count query gave, -1 when that query failed, and has                    *)
(* has_more = (rows of the batch = page size) and (total = -1 or           *)
(* offset + page size < total).                                            *)
(***************************************************************************)
\* what the count step of worker w gave
CountStepOf(w) ==
    IF "count" \in FailedCalls(w) THEN -1
    ELSE CountResult(Execute(CountQuery(threads[w].query), table))

C24_HasMoreFormula ==
    \A w \in Workers :
      FirstKeyword(threads[w].query) = "SELECT" =>
        \A ev \in Batches(w) :
          /\ ev.total_count = CountStepOf(w)
          /\ ev.has_more <=>
               /\ Len(ev.data) = threads[w].batch_size
               /\ \/ ev.total_count = -1
                  \/ threads[w].offset + threads[w].batch_size < ev.total_count

\* a full page with an unknown total has hasMore, and a full last page with
\* a known total has not
C24_Witness ==
    \E w, v \in Workers :
      /\ FirstKeyword(threads[w].query) = "SELECT"
      /\ FirstKeyword(threads[v].query) = "SELECT"
      /\ \E ev \in Batches(w) :
           /\ ev.total_count = -1
           /\ Len(ev.data) = threads[w].batch_size
           /\ ev.has_more
      /\ \E ev \in Batches(v) :
           /\ ev.total_count > 0
           /\ Len(ev.data) = threads[v].batch_size
           /\ threads[v].offset > 0
           /\ ~ev.has_more


(***************************************************************************)
(* C23: the export worker executes the semicolon-stripped statement        *)
(* unpaged; when it is not cancelled and no engine call of it fails it     *)
(* emits exactly one export-ready event, whose rows are the whole result   *)
(* in order; when its flag is set at a chunk boundary it stops fetching    *)
(* and emits neither export-ready nor error.                               *)
(***************************************************************************)
ExportEvents(e, kind) ==
    SelectSeq(export_threads[e].emitted, LAMBDA ev : ev.kind = kind)

WholeResult(e) == EngineCall(CleanQuery(export_threads[e].query), FALSE)

ChunkBoundary == {"check_fetch", "check_final"}

ExportUndisturbed(e) ==
    /\ export_threads[e].pc = "done"
    /\ ~export_threads[e].is_cancelled
    /\ export_threads[e].failedCall = {}

ExportDeliversAll(e) ==
    /\ Len(ExportEvents(e, "export_ready")) = 1
    /\ ExportEvents(e, "export_ready")[1].data = WholeResult(e).rows

ExportStaysSilent(e) ==
    /\ ExportEvents(e, "export_ready") = <<>>
    /\ ExportEvents(e, "export_error") = <<>>

C23_ExportResult ==
    \A e \in ExportWorkers :
        /\ ExportUndisturbed(e) => ExportDeliversAll(e)
        /\ export_threads[e].cancelAt \in ChunkBoundary => ExportStaysSilent(e)


(***************************************************************************)
(* C25: a statement that contains a LIMIT <integer> clause is wrapped as   *)
(* a subquery with LIMIT N OFFSET O, any other statement gets the clause   *)
(* appended; the detection does not match the letters "limit" inside a     *)
(* string literal.                                                         *)
(***************************************************************************)
\* the text without its string literals
RECURSIVE OutsideLiterals(_, _)
OutsideLiterals(q, i) ==
    IF i > Len(q) THEN <<>>
    ELSE IF q[i].t = "'"
         THEN LET j == ClosingQuote(q, i + 1) IN
              IF j = 0 THEN <<>> ELSE OutsideLiterals(q, j + 1)
    ELSE <<q[i]>> \o OutsideLiterals(q, i + 1)

ContainsLimitClause(q) == HasLimitClause(OutsideLiterals(q, 1))

\* worker w executes its page query in this step
ExecutesPage(w) ==
    /\ threads[w].pc = "check_prepare"
    /\ threads'[w].pc = "check_fetch"

C25_LimitDetection ==
    [][\A w \in Workers : ExecutesPage(w) =>
          LET th == threads[w] IN
          /\ HasLimitClause(th.query) <=> ContainsLimitClause(th.query)
          /\ threads'[w].cursor =
                 Execute(IF ContainsLimitClause(th.query)
                         THEN WrappedQuery(th.query, th.batch_size, th.offset)
                         ELSE AppendedQuery(th.query, th.batch_size, th.offset),
                         table).rows]_vars


(***************************************************************************)
(* C26: every page view is a fresh execution: first, previous, next, last  *)
(* and goto only set current_page and start a new worker, whose offset is  *)
(* current_page * page_size as read when it is started; current_page is    *)
(* never negative.                                                         *)
(***************************************************************************)
Navigates ==
    \/ FirstPage \/ PrevPage \/ NextPage \/ GoToLastPage
    \/ \E page \in PageNumbers : GoToPageForWidget(page)

\* the session's statement and what is known of its result stay as they are
KeepsTheStatement ==
    /\ tab'.current_query = tab.current_query
    /\ tab'.total_rows = tab.total_rows
    /\ tab'.page_size = tab.page_size
    /\ tab'.columns = tab.columns
    /\ tab'.results_table = tab.results_table

\* worker w is created and started in this step
IsStarted(w) == threads[w].pc = "unborn" /\ threads'[w].pc = "start"

C26_PageViewIsFreshExecution ==
    [][/\ Navigates => /\ KeepsTheStatement
                       /\ control'.op = "execute_streaming_query"
                       /\ \A w \in Workers : ~IsStarted(w)
       /\ (control.op = "execute_streaming_query" /\ control' = InLoop) =>
              /\ \E w \in Workers : IsStarted(w)
              /\ \A w \in Workers : IsStarted(w) =>
                     /\ tab'.streaming_thread = w
                     /\ threads'[w].query = tab.current_query
                     /\ threads'[w].batch_size = tab.page_size
                     /\ threads'[w].offset = tab.current_page * tab.page_size
       /\ tab'.current_page >= 0]_vars

\* a page after the first has been asked for, has arrived and is shown
C26_Witness ==
    /\ tab.current_page > 0
    /\ tab.streaming_thread # 0
    /\ posted = <<>>
    /\ tab.results_table # <<>>
    /\ \E w \in Workers : /\ w = tab.streaming_thread
                          /\ threads[w].offset = tab.current_page * tab.page_size
                          /\ Batches(w) # {}


(***************************************************************************)
(* C27: a change of the page size with a current query resets current_page *)
(* to 0 and runs the worker again with the new page size and offset 0,     *)
(* leaving current_query and total_rows as they are; with no current query *)
(* it changes nothing of the session but the page size chosen and starts   *)
(* no worker.                                                              *)
(***************************************************************************)
ChangesPageSize == \E n \in PageSizeChoices : ChangePageSize(n)

\* from the handler's call of wait() to the start of the new worker the
\* session stays as the handler left it
BeforeTheStart == control.op = "execute_streaming_query"

C27_PageSizeChange ==
    [][/\ ChangesPageSize =>
              IF tab.current_query # <<>>
              THEN /\ tab'.current_page = 0
                   /\ tab'.page_size # tab.page_size
                   /\ tab'.current_query = tab.current_query
                   /\ tab'.total_rows = tab.total_rows
                   /\ BeforeTheStart'
              ELSE /\ tab' = [tab EXCEPT !.page_size = tab'.page_size]
                   /\ control' = InLoop
                   /\ UNCHANGED <<threads, posted>>
       /\ BeforeTheStart =>
              /\ tab'.current_page = tab.current_page
              /\ tab'.page_size = tab.page_size
              /\ tab'.current_query = tab.current_query
              /\ tab'.total_rows = tab.total_rows
              /\ \A w \in Workers : IsStarted(w) =>
                     /\ threads'[w].batch_size = tab.page_size
                     /\ threads'[w].offset = tab.current_page * tab.page_size
                     /\ threads'[w].query = tab.current_query]_vars

\* a later page had arrived, the page size was changed, and the first page
\* of the new size has arrived
C27_Witness ==
    /\ tab.current_page = 0
    /\ tab.total_rows > 0
    /\ \E v, w \in Workers :
          /\ threads[v].offset > 0
          /\ Batches(v) # {}
          /\ w = tab.streaming_thread
          /\ threads[w].batch_size # threads[v].batch_size
          /\ threads[w].offset = 0
          /\ Batches(w) # {}


(***************************************************************************)
(* C28: for a statement that is not row-producing, one whose first keyword *)
(* is not SELECT, the worker issues no count query and rewrites nothing:   *)
(* it executes the semicolon-stripped statement exactly once and emits a   *)
(* batch with has_more false; when the statement produced no column        *)
(* metadata the batch is the acknowledgment, one column and one row.       *)
(***************************************************************************)
NotRowProducing(w) == Started(w) /\ FirstKeyword(threads[w].query) # "SELECT"

\* run() of worker w is past its call of execute()
PastExecute(w) == threads[w].pc \in {"check_fetch", "check_final", "emit_batch"}

IsAcknowledgment(ev) ==
    /\ Len(ev.columns) = 1
    /\ Len(ev.data) = 1
    /\ Len(ev.data[1]) = 1
    /\ ev.columns = <<"Result">>
    /\ ev.data[1][1] = Literal("Query executed successfully")

C28_NonSelectExecution ==
    \A w \in Workers : NotRowProducing(w) =>
        LET q == threads[w].query IN
        /\ threads[w].calls \in {<<>>, <<CleanQuery(q)>>}
        /\ PastExecute(w) => threads[w].calls = <<CleanQuery(q)>>
        /\ NumOf(w, "batch") <= 1
        /\ \A ev \in Batches(w) :
              /\ ~ev.has_more
              /\ Unpaged(q).description = <<>> => IsAcknowledgment(ev)



(***************************************************************************)
(* C29: the worker reads its cancellation flag before the count, prepare   *)
(* and execute steps and before and after every fetched chunk, so once the *)
(* flag is set it starts no further engine call: no count query, no        *)
(* execute, no further fetch of a chunk.                                   *)
(***************************************************************************)
\* worker w hands a text to connection.execute() in this step
StartsExecute(w) == Len(threads'[w].calls) > Len(threads[w].calls)

\* worker w calls fetchmany() or fetchall() in this step
StartsFetch(w) ==
    \/ /\ threads[w].pc = "check_fetch"
       /\ threads'[w].pc \in {"check_chunk", "check_final", "except"}
    \/ /\ threads[w].pc = "process_chunk"
       /\ Len(ProcessChunk(threads[w]).batch_data) < threads[w].batch_size
       /\ threads'[w].pc # "process_chunk"

C29_NoEngineCallOnceCancelled ==
    [][\A w \in Workers :
          (StartsExecute(w) \/ StartsFetch(w)) => ~threads[w].is_cancelled]_vars


(***************************************************************************)
(* C30: the progress values one worker emits are non-decreasing and lie in *)
(* 0..100; for a row-producing statement 25, 50 and 75 come in that order; *)
(* the values of the fetch never exceed 95; 100 is emitted only            *)
(* immediately before batch-ready, never before an error and never after   *)
(* the worker was cancelled.                                               *)
(***************************************************************************)
ProgressValues(evs) ==
    LET ps == SelectSeq(evs, LAMBDA ev : ev.kind = "progress") IN
    [i \in DOMAIN ps |-> ps[i].progress]

NonDecreasing(ps) == \A i, j \in DOMAIN ps : i < j => ps[i] <= ps[j]

\* the first place of value v in ps, 0 when it is not there
FirstAt(ps, v) ==
    IF \E i \in DOMAIN ps : ps[i] = v
    THEN CHOOSE i \in DOMAIN ps : ps[i] = v /\ \A j \in 1..(i - 1) : ps[j] # v
    ELSE 0

MilestonesInOrder(ps) ==
    /\ FirstAt(ps, 50) # 0 => (FirstAt(ps, 25) # 0 /\ FirstAt(ps, 25) < FirstAt(ps, 50))
    /\ FirstAt(ps, 75) # 0 => (FirstAt(ps, 50) # 0 /\ FirstAt(ps, 50) < FirstAt(ps, 75))

HundredOnlyBeforeBatch(evs) ==
    \A i \in DOMAIN evs :
        (evs[i].kind = "progress" /\ evs[i].progress = 100) =>
            (i < Len(evs) /\ evs[i + 1].kind = "batch")

\* worker w emits progress 100 in this step
EmitsHundred(w) ==
    /\ Len(emitted'[w]) > Len(emitted[w])
    /\ \E i \in (Len(emitted[w]) + 1)..Len(emitted'[w]) :
          emitted'[w][i].kind = "progress" /\ emitted'[w][i].progress = 100

C30_ProgressValues ==
    [][\A w \in Workers :
          LET ps == ProgressValues(emitted'[w]) IN
          /\ \A i \in DOMAIN ps : ps[i] \in 0..100
          /\ NonDecreasing(ps)
          /\ FirstKeyword(threads'[w].query) = "SELECT" => MilestonesInOrder(ps)
          /\ \A i \in DOMAIN ps : ps[i] # 100 => ps[i] <= 95
          /\ HundredOnlyBeforeBatch(emitted'[w])
          /\ EmitsHundred(w) => ~threads[w].is_cancelled]_vars


(***************************************************************************)
(* C32: in split_sql_statements a line comment, recognised by "--" outside *)
(* a string, runs to the end of its line: a semicolon or a quote inside it *)
(* neither ends a statement nor opens a string, a semicolon on a later     *)
(* line outside every string still ends the statement, and "--" inside a   *)
(* quoted string starts no comment.                                        *)
(***************************************************************************)
\* the text with a word in place of every semicolon and quote of a comment
\* and of every "--" of a string
WithoutDecoys(x) ==
    [i \in DOMAIN x |->
        IF \/ Labels(x)[i] = "comment" /\ x[i] \in {Semi, SingleQuote, DoubleQuote}
           \/ Labels(x)[i] = "string" /\ x[i] = Dashes
        THEN Word ELSE x[i]]

HasDecoys(x) == WithoutDecoys(x) # x

\* the characters of a statement outside its comments and strings
CodeOf(x) ==
    LET keep == {i \in DOMAIN x : Labels(x)[i] \in {"code", "open", "close"}}
        F[i \in 0..Len(x)] ==
            IF i = 0 THEN <<>>
            ELSE IF i \in keep THEN Append(F[i - 1], x[i]) ELSE F[i - 1] IN
    F[Len(x)]

C32_CommentRunsToEndOfLine ==
    (Split /\ HasDecoys(sql_editor)) =>
        LET plain == SplitSqlStatements(WithoutDecoys(sql_editor)) IN
        /\ Len(queries) = Len(Statements(sql_editor))
        /\ Len(queries) = Len(plain)
        /\ \A k \in DOMAIN queries :
              k \in DOMAIN plain => CodeOf(queries[k]) = CodeOf(plain[k])

\* a comment that holds a semicolon, and a semicolon on the next line: the
\* one statement found ends at the second
C32_Witness ==
    /\ Split
    /\ sql_editor = <<Word, Dashes, Semi, Newline, Semi>>
    /\ queries = << <<Word, Dashes, Semi>> >>


(***************************************************************************)
(* C34: every batch a streaming worker emits holds at most batch_size      *)
(* rows, whatever the statement: one that begins with SELECT or one that   *)
(* returns rows without beginning with SELECT.                             *)
(***************************************************************************)
C34_BatchWithinPageSize ==
    \A w \in Workers : \A ev \in Batches(w) :
        Len(ev.data) <= threads[w].batch_size

(***************************************************************************)
(* C35: every batch a streaming worker emits is rectangular: each row has  *)
(* as many cells as the batch has columns, the batch of a statement with   *)
(* column metadata and no rows included.                                   *)
(***************************************************************************)
C35_BatchIsRectangular ==
    \A w \in Workers : \A ev \in Batches(w) :
        \A r \in DOMAIN ev.data : Len(ev.data[r]) = Len(ev.columns)


(***************************************************************************)
(* C36: while the session's streaming worker is running, started and       *)
(* neither finished nor cancelled, the first, previous, next, last and     *)
(* page-size controls are disabled and the cancel control is enabled, also *)
(* when events of an earlier worker are handled after it has started.      *)
(***************************************************************************)
WorkerAtWork ==
    IF tab.streaming_thread = 0 THEN FALSE
    ELSE /\ Running(tab.streaming_thread)
         /\ ~threads[tab.streaming_thread].is_cancelled

C36_ControlsWhileRunning ==
    WorkerAtWork =>
        /\ ~tab.first_page_btn /\ ~tab.prev_page_btn
        /\ ~tab.next_page_btn /\ ~tab.last_page_btn
        /\ ~tab.page_size_combo
        /\ tab.cancel_btn

(***************************************************************************)
(* C37: while total_rows is unknown the next-page control is enabled only  *)
(* if the batch delivered last reported has_more, so current_page does not *)
(* advance past the first page that came back short.                       *)
(***************************************************************************)
\* handle_batch_ready applies the batch at the head of the queue in this step
AppliesBatch ==
    /\ control = InLoop
    /\ posted # <<>>
    /\ posted' = Tail(posted)
    /\ Head(posted).kind = "batch"
    /\ tab.in_query_tabs

C37_NextOnlyIfHasMore ==
    [][(AppliesBatch /\ tab'.total_rows <= 0 /\ tab'.next_page_btn)
           => Head(posted).has_more]_vars

(***************************************************************************)
(* Texts without a statement.                                              *)
(***************************************************************************)
\* texts of the editor: a statement, and texts of semicolons only, which
\* split_sql_statements reduces to no statement
SubmitTexts == {SelectPlain, <<Semi>>, <<Space, Semi, Newline, Semi>>}

InitSubmit == InitSession({SessionRows}, SubmitTexts, MaxWorkers)

NextSubmit ==
    \/ \E text \in SubmitTexts : EditText(text)
    \/ ExecuteQueryForTab
    \/ StartStreamingThread(FALSE)
    \/ NextPage
    \/ HandleBatchReady \/ HandleStreamingError \/ HandleProgressUpdate
    \/ \E w \in Workers : Alive /\ Run(w, {"execute"})

SpecSubmit == InitSubmit /\ [][NextSubmit]_vars

\* execute_query_for_tab runs on a non-empty text without a statement: it is
\* the one step that empties `queries` or ends the process
SubmitsNoStatement ==
    /\ control = InLoop
    /\ StripText(sql_editor) # <<>>
    /\ SplitSqlStatements(StripText(sql_editor)) = <<>>
    /\ sql_editor' = sql_editor
    /\ queries' = <<>>
    /\ \/ control' = Aborted
       \/ control' = InLoop /\ queries # <<>>

\* C39: submitting a non-empty text that splits into no statement ends
\* without an unhandled error on the control thread, starts no worker and
\* leaves current_query, current_page and total_rows as they were
C39_NoStatementIsHarmless ==
    [][SubmitsNoStatement =>
           /\ control' # Aborted
           /\ threads' = threads
           /\ tab'.current_query = tab.current_query
           /\ tab'.current_page = tab.current_page
           /\ tab'.total_rows = tab.total_rows]_vars

(***************************************************************************)
(* Closing the main window.                                                *)
(***************************************************************************)
\* closeEvent: self.query_thread is assigned nowhere, so the hasattr test
\* fails and the handler closes the connection and accepts the event.  The
\* window takes no close event while the modal progress dialog blocks it.
CloseEvent ==
    /\ control = InLoop
    /\ WindowEnabled
    /\ control' = [InLoop EXCEPT !.op = "closed"]
    /\ UNCHANGED <<exportVars, table, query_tab_widget, sql_editor, queries, tab, threads,
                   posted, emitted, cancelAt, failedCall>>

\* self.connection.close() has been called
Closed == control.op = "closed"

InitClose == InitSession({SessionRows}, {SelectPlain}, MaxWorkers)

\* a worker that is still running after the close goes on with its engine
\* calls, each of which may raise
NextClose ==
    \/ ExecuteQueryForTab
    \/ StartStreamingThread(FALSE)
    \/ NextPage
    \/ CancelQuery \/ CancelQueryDone(FALSE)
    \/ HandleBatchReady \/ HandleStreamingError \/ HandleProgressUpdate
    \/ \E w \in Workers : Run(w, IF Closed THEN EngineCalls ELSE {})
    \/ CloseEvent

SpecClose == InitClose /\ [][NextClose]_vars

\* C40: the connection is never closed while a worker is running: when
\* closeEvent has closed it, no streaming worker and no export worker is
\* between the start and the end of its run()
C40_NoWorkerRunsAtClose ==
    Closed => /\ \A w \in Workers : ~Running(w)
              /\ \A e \in DOMAIN export_threads : ~ExportRunning(e)

(***************************************************************************)
(* The threads that use self.connection.                                   *)
(***************************************************************************)
\* Every worker is handed the one self.connection (5222, 5541), and
\* execute_multiple_queries calls it on the control thread (4870); no lock
\* is taken anywhere.  A thread is inside an engine call during the stretch
\* of code whose step calls execute, fetchmany or fetchall: the stretch of a
\* worker runs while the other threads run theirs.
WorkerInEngine(w) ==
    LET th == threads[w] IN
    \/ th.pc = "start" /\ IsSelectQuery(th.query)
    \/ th.pc \in {"check_prepare", "check_ns", "check_fetch"} /\ ~th.is_cancelled

ExportInEngine(e) ==
    LET th == export_threads[e] IN
    th.pc \in {"check_start", "check_fetch"} /\ ~th.is_cancelled

ControlInEngine == control.op = "execute_multiple_queries"

\* the threads inside an engine call, by kind and number
ConnectionUsers ==
    {<<"streaming", w>> : w \in {x \in Workers : WorkerInEngine(x)}}
        \cup {<<"export", e>> : e \in {x \in DOMAIN export_threads : ExportInEngine(x)}}
        \cup (IF ControlInEngine THEN {<<"control", 0>>} ELSE {})

\* C38: the shared connection is never used by two threads at once: at most
\* one of the streaming workers, the export workers and the control thread
\* is inside an engine call
C38_OneConnectionUser == Cardinality(ConnectionUsers) <= 1

(***************************************************************************)
(* Tabs before the session's tab.                                          *)
(***************************************************************************)
\* the user closes a tab that comes before the session's: close_query_tab
\* removes it and renumbers query_tabs (lines 4579-4588), so the session's
\* key goes down by one; the sessions of the other tabs run no worker
CloseLowerTab ==
    /\ control = InLoop
    /\ tab.in_query_tabs
    /\ tab.key > 0
    /\ tab' = [tab EXCEPT !.key = @ - 1]
    /\ query_tab_widget' = query_tab_widget - 1
    /\ UNCHANGED <<exportVars, table, sql_editor, queries, threads, posted,
                   control, emitted, cancelAt, failedCall>>

\* the session is the second of MaxTabs + 1 tabs
InitRoute ==
    /\ table = SessionRows
    /\ sql_editor = SelectPlain
    /\ tab = [NewTab EXCEPT !.key = 1]
    /\ threads = [w \in 1..MaxWorkers |-> NoThread]
    /\ posted = <<>>
    /\ control = InLoop
    /\ emitted = [w \in 1..MaxWorkers |-> <<>>]
    /\ cancelAt = [w \in 1..MaxWorkers |-> ""]
    /\ failedCall = [w \in 1..MaxWorkers |-> {}]
    /\ queries = <<>>
    /\ export_threads = <<>>
    /\ export_query_thread = 0
    /\ export_progress_dialog = NoDialog
    /\ export_file = NoFile
    /\ query_tab_widget = MaxTabs + 1

NextRoute ==
    \/ CloseLowerTab \/ CloseOtherTab
    \/ ExecuteQueryForTab
    \/ StartStreamingThread(TRUE)
    \/ HandleBatchReady \/ HandleStreamingError \/ HandleProgressUpdate
    \/ \E w \in Workers : Run(w, {"execute"})

SpecRoute == InitRoute /\ [][NextRoute]_vars

\* the control thread takes the oldest queued event, emitted by a worker
\* that the session launched
Delivers ==
    /\ Dispatching
    /\ posted # <<>>
    /\ posted' = Tail(posted)

\* C33: every event of a worker is routed to the session that launched the
\* worker, whatever tabs were opened and closed since: while the session
\* exists, the event it is handed to is the session itself
C33_RoutedToLauncher ==
    [][(Delivers /\ tab.in_query_tabs) => Receives(Head(posted))]_vars

(***************************************************************************)
(* Termination of the workers and of the waits for them.                   *)
(***************************************************************************)
InitLive == InitSession({SessionRows}, {SelectPlain}, MaxWorkers)

\* the user runs and cancels statements and closes the tab, or exports the
\* first page once it is shown and goes on exporting
NoExport == export_threads = <<>>
FirstPageShown ==
    /\ Quiet
    /\ Unborn = Workers \ {1}
    /\ tab.in_query_tabs
    /\ tab.results_table # <<>>
    /\ query_tab_widget = 1

NextLive ==
    \/ NoExport /\ tab.in_query_tabs /\ ExecuteQueryForTab
    \/ StartStreamingThread(TRUE)
    \/ NoExport /\ tab.in_query_tabs /\ CancelQuery
    \/ CancelQueryDone(TRUE)
    \/ NoExport /\ AddNewQueryTab
    \/ NoExport /\ CloseQueryTab
    \/ CloseQueryTabDone(TRUE)
    \/ HandleBatchReady \/ HandleStreamingError \/ HandleProgressUpdate
    \/ \E w \in Workers : Alive /\ Run(w, {"execute"})
    \/ FirstPageShown /\ ExportResults
    \/ ExportDialogCancel
    \/ UpdateExportProgress \/ HandleExportDataReady \/ HandleExportError
    \/ \E e \in ExportWorkers : ExportRun(e, {"execute"})

\* run() of worker w goes one stretch further: every stretch ends at another
\* position, and nothing else moves a running worker
Stretch(w) == Running(w) /\ threads'[w].pc # threads[w].pc

RunningExport(e) ==
    IF e \in ExportWorkers THEN ExportRunning(e) ELSE FALSE
ExportStretch(e) ==
    /\ RunningExport(e)
    /\ \/ export_threads'[e].pc # export_threads[e].pc
       \/ export_threads'[e].cursor # export_threads[e].cursor

\* The operating system gives every running thread processor time: a
\* worker that is running in a live process takes its next stretch.  This is
\* WF_vars of the worker's steps, written with the condition under which a
\* step is enabled.  The control thread goes on in its handler as soon as
\* the wait() it is blocked in has returned.  The user's actions and the
\* delivery of events get no such condition.
FairLive ==
    /\ \A w \in 1..MaxWorkers :
           []<>(~(Alive /\ Running(w))) \/ []<><<Stretch(w)>>_vars
    /\ \A e \in 1..MaxExports :
           []<>(~(Alive /\ RunningExport(e))) \/ []<><<ExportStretch(e)>>_vars
    /\ WF_vars(StartStreamingThread(TRUE))
    /\ WF_vars(CancelQueryDone(TRUE))
    /\ WF_vars(CloseQueryTabDone(TRUE))

SpecLive == InitLive /\ [][NextLive]_vars /\ FairLive

\* run() of streaming worker w has emitted its batch or its error, or has
\* returned
HasEmitted(evs, kinds) == \E i \in DOMAIN evs : evs[i].kind \in kinds
WorkerTerminal(w) ==
    threads[w].pc = "done" \/ HasEmitted(emitted[w], {"batch", "error"})

\* export worker e exists / has emitted its data or its error, or has
\* returned from its try block
ExportExists(e) == e \in ExportWorkers
ExportTerminal(e) ==
    IF e \in ExportWorkers
    THEN \/ export_threads[e].pc \in {"finally", "done"}
         \/ HasEmitted(export_threads[e].emitted, {"export_ready", "export_error"})
    ELSE FALSE

\* the control thread is inside a handler that has called cancel() and wait()
Waiting == control.op \in {"cancel_query", "execute_streaming_query", "close_query_tab"}

=============================================================================
